---- MODULE Spec2Model ----
(***************************************************************************)
(* State-machine model of the PDF annotation view of mynotepad:            *)
(*   - App.tsx: the per-page annotation store, the undo/redo history,      *)
(*     page navigation and the save (export) handler;                      *)
(*   - DrawingCanvas (kept in utils/penFavorites.ts): the pointer-event    *)
(*     handlers that capture strokes and run the eraser hit-test;          *)
(*   - utils/pdfExport (unnamed/part_002): the export compositor.          *)
(*                                                                         *)
(* One action is one React event handler together with the re-render that  *)
(* commits its state updates.  A handler reads the state captured by the   *)
(* render it was created in, so inside one handler every read of a state   *)
(* variable sees the value from before the handler started, and of several *)
(* plain setX(value) calls on one variable the last one wins.              *)
(*                                                                         *)
(* JavaScript arrays are 0-based and history[historyIndex] is the live     *)
(* snapshot; TLA+ sequences are 1-based, so that snapshot is               *)
(* history[historyIndex + 1] here.  historyIndex keeps the code's 0-based  *)
(* value.                                                                  *)
(***************************************************************************)
EXTENDS Integers, Sequences, FiniteSets, TLC

\* ---------------------------------------------------------------- bounds
NumPages == 2          \* pages of the loaded document
MaxStrokes == 2        \* stroke ids handed out per run
MaxPts == 1            \* points retained in one draft
MaxHistory == 4        \* snapshots kept in the history list
MaxTexts == 1          \* text annotation ids handed out per run
MaxSketches == 2       \* sketch ids handed out per run
InkPts == 3            \* points of a draft that still takes a sample

\* ------------------------------------------------------------ input sets
\* Pointer positions in document units (after getCanvasCoordinates).
\* (0,0)-(6,0) are exactly 6 apart, the eraser radius penSize * 3 of the
\* initial pen size; (0,0)-(0,8) are 8 apart, (6,0)-(0,8) are 10.
Pos == {<<0, 0>>, <<6, 0>>, <<0, 8>>}

Tools == {"pen", "eraser", "pan", "text"}

PenStyles ==
  {"writing", "drawing", "calligraphy", "fountain", "ballpoint", "brush",
   "pencil", "highlighter"}

\* event.pressure in tenths; 0 is what a device without pressure reports.
Pressures == {0, 10}

\* String(page) for the page numbers in reach
PageStr(n) == <<"0", "1", "2", "3", "4", "5", "6", "7", "8", "9">>[n + 1]

\* parseInt(pageInput, 10): NaN for a string without a leading digit
ParseInt(s) ==
  IF \E n \in 0 .. 9 : PageStr(n) = s
    THEN [isNaN |-> FALSE, value |-> CHOOSE n \in 0 .. 9 : PageStr(n) = s]
    ELSE [isNaN |-> TRUE, value |-> 0]

\* What the user can leave in the page input: empty, 0, a page, one beyond.
PageInputs == {""} \cup {PageStr(n) : n \in 0 .. (NumPages + 1)}

NoPath == [id |-> 0]

VARIABLES
  currentPage,            \* App: currentPage
  pageInput,              \* App: pageInput (the input's text)
  drawingTool,            \* App: drawingTool
  penSize,                \* App: penSize
  drawingPaths,           \* App: drawingPaths (live strokes of the page)
  history,                \* App: history
  historyIndex,           \* App: historyIndex (0-based)
  textAnnotations,        \* App: textAnnotations (live texts of the page)
  allPageAnnotations,     \* App: allPageAnnotations, Map.get(p) || []
  allPageTextAnnotations, \* App: allPageTextAnnotations, Map.get(p) || []
  isDrawing,              \* DrawingCanvas: isDrawing
  currentPath,            \* DrawingCanvas: currentPath (NoPath = null)
  isErasing,              \* DrawingCanvas: isErasing
  isPanning,              \* DrawingCanvas: isPanning
  nextId,                 \* ids handed out so far (Date.now()/Math.random())
  nextTextId,             \* text ids handed out so far
  shapeRecognitionEnabled, \* App: shapeRecognitionEnabled
  heldTool,               \* the tool prop at the pointer-down of the
                          \* gesture in progress, "none" between gestures
  lastEvent,              \* the handler that ran last, with its input
  exp,                    \* the export in flight (handleSavePDF)
  trial,                  \* undo/redo round trip under test: its counters;
                          \* the draft the last pointer-up handed over;
                          \* the display offset of the last sample
  pad,                    \* SketchPad: its state hooks
  textDrag,               \* TextAnnotation: draggedAnnotation and the
                          \* mousemove listeners on the document
  sketchDB,               \* indexedDBStorage: the sketches store, and the
                          \* outcome of the last sketchStorage call
  penStore,               \* penFavorites: the 'pen_favorites' key of
                          \* localStorage, the clock, and the outcome of
                          \* the last call
  recentFiles,            \* fileStorage: the 'recentFiles' list of
                          \* localStorage, and whether an
                          \* addToRecentFiles is in flight
  view                    \* App: scale, in quarters (6 is 1.5), and
                          \* hasManualZoom

appVars ==
  <<currentPage, pageInput, drawingTool, penSize, drawingPaths, history,
    historyIndex, textAnnotations, allPageAnnotations,
    allPageTextAnnotations, nextId, nextTextId, shapeRecognitionEnabled>>

canvasVars == <<isDrawing, currentPath, isErasing, isPanning>>

\* what lives outside the PDF annotation view
widgetVars == <<pad, textDrag, sketchDB, penStore>>

\* what opening a file sets besides the annotations
fileVars == <<recentFiles, view>>

sideVars == <<widgetVars, fileVars>>

vars ==
  <<appVars, canvasVars, heldTool, lastEvent, exp, trial, sideVars>>

\* ------------------------------------------------------- pure helpers
\* Math.pow(p.x - q.x, 2) + Math.pow(p.y - q.y, 2), before Math.sqrt
Dist2(p, q) == (p[1] - q[1]) * (p[1] - q[1]) + (p[2] - q[2]) * (p[2] - q[2])

\* path.points.some(p => distance <= penSize * 3); both sides are >= 0, so
\* sqrt(d2) <= r is d2 <= r*r
EraserHitExclusive(path, point, size) ==
  \E i \in 1 .. Len(path.points) :
    Dist2(path.points[i], point) < (size * 3) * (size * 3)

EraserHit(path, point, size) ==
  \E i \in 1 .. Len(path.points) :
    Dist2(path.points[i], point) <= (size * 3) * (size * 3)

\* paths.filter(path => path.points.some(...))
PathsToErase(paths, point, size) ==
  SelectSeq(paths, LAMBDA path : EraserHit(path, point, size))

\* event.pressure > 0 ? event.pressure : 0.5
PressureOf(raw) == IF raw > 0 THEN raw ELSE 5

\* saveToHistory: history.slice(0, historyIndex + 1) then push([...paths])
SaveToHistoryNoTruncate(h, idx, paths) == Append(h, paths)

SaveToHistoryOffByOne(h, idx, paths) == Append(SubSeq(h, 1, idx), paths)

SaveToHistory(h, idx, paths) == Append(SubSeq(h, 1, idx + 1), paths)

\* handlePathErased: drawingPaths.filter(path => path.id !== pathId)
FilterOut(paths, pathId) == SelectSeq(paths, LAMBDA path : path.id # pathId)

\* pathsToErase.forEach(path => onPathErased(path.id)): every call computes
\* its result from the drawingPaths of the current render and overwrites the
\* pending update of the call before it.
RECURSIVE ForEachErased(_, _, _, _)
ForEachErased(paths, toErase, i, pending) ==
  IF i > Len(toErase)
    THEN pending
    ELSE ForEachErased(paths, toErase, i + 1, FilterOut(paths, toErase[i].id))

\* the tool prop PDFViewer hands to DrawingCanvas
CanvasTool == IF drawingTool = "text" THEN "pen" ELSE drawingTool

\* the handler that runs, its input, and the history cursor and length it
\* found
Event(type, arg) ==
  [type |-> type, arg |-> arg, idx |-> historyIndex, len |-> Len(history)]

\* a page the export drew nothing on: no ink, no stroke ids, no text ids
NoLayer == [ink |-> <<>>, strokes |-> <<>>, texts |-> <<>>]

\* no export started: handleSavePDF has not run
NoExport ==
  [pc |-> "idle", isSaving |-> FALSE, pageNum |-> 0,
   finalAnnotations |-> <<>>, before |-> <<>>,
   layers |-> [p \in 1 .. NumPages |-> NoLayer],
   scale |-> [p \in 1 .. NumPages |-> <<1, 1>>],
   job |-> [p \in 1 .. NumPages |-> "todo"],
   embedded |-> {}, failed |-> {}, blob |-> FALSE, downloaded |-> FALSE,
   stored |-> FALSE, storageFailed |-> FALSE, alert |-> "none"]

NoTrial ==
  [commits |-> 0, undos |-> 0, redos |-> 0, committed |-> <<>>,
   draft |-> NoPath, offset |-> <<0, 0>>]

\* ------------------------------------------------ utils/shapeRecognition
\* Points have whole-unit coordinates.  Lengths are kept in hundredths of a
\* unit (the square root is rounded down to the hundredth), confidences in
\* thousandths; the canonical points of a circle and the head of an arrow
\* are rounded down to whole units.
RECURSIVE Newton(_, _)
Newton(n, x) ==
  LET y == (x + n \div x) \div 2
  IN IF y < x THEN Newton(n, y) ELSE x

\* Math.sqrt, rounded down
ISqrt(n) == IF n = 0 THEN 0 ELSE Newton(n, n)

\* distance(p1, p2), in hundredths
Distance(p1, p2) == ISqrt(10000 * Dist2(p1, p2))

\* pathLength(points), in hundredths
RECURSIVE PathLength(_)
PathLength(points) ==
  IF Len(points) < 2
    THEN 0
    ELSE PathLength(SubSeq(points, 1, Len(points) - 1))
         + Distance(points[Len(points) - 1], points[Len(points)])

\* null
NoShape == [type |-> "none", confidence |-> 0, points |-> <<>>]

\* recognizeLine: straightness = directDistance / totalLength, a line when
\* it exceeds 1 - LINE_STRAIGHTNESS_THRESHOLD (0/0 is NaN and exceeds nothing)
RecognizeLine(points) ==
  IF Len(points) < 2
    THEN NoShape
    ELSE LET start == points[1]
             end == points[Len(points)]
             directDistance == Distance(start, end)
             totalLength == PathLength(points)
         IN IF totalLength > 0 /\ 100 * directDistance > 85 * totalLength
              THEN [type |-> "line",
                    confidence |-> (1000 * directDistance) \div totalLength,
                    points |-> <<start, end>>]
              ELSE NoShape

\* 1000 * cos(2 * pi * i / 64) for i = 0 .. 63
Cos64 ==
  <<1000, 995, 981, 957, 924, 882, 831, 773, 707, 634, 556, 471, 383, 290,
    195, 98, 0, -98, -195, -290, -383, -471, -556, -634, -707, -773, -831,
    -882, -924, -957, -981, -995, -1000, -995, -981, -957, -924, -882, -831,
    -773, -707, -634, -556, -471, -383, -290, -195, -98, 0, 98, 195, 290,
    383, 471, 556, 634, 707, 773, 831, 882, 924, 957, 981, 995>>

\* sum of f over 1 .. n
RECURSIVE Sum(_, _)
Sum(f, n) == IF n = 0 THEN 0 ELSE Sum(f, n - 1) + f[n]

Abs(a) == IF a < 0 THEN -a ELSE a

\* recognizeCircle: a closed path of at least 10 points whose mean absolute
\* deviation from the mean radius is under CIRCLE_ROUNDNESS_THRESHOLD of the
\* mean radius; the centre is in hundredths
RecognizeCircle(points) ==
  LET n == Len(points)
      totalLength == PathLength(points)
      closedDistance == Distance(points[1], points[n])
      centerX == (100 * Sum([k \in 1 .. n |-> points[k][1]], n)) \div n
      centerY == (100 * Sum([k \in 1 .. n |-> points[k][2]], n)) \div n
      r == [k \in 1 .. n |->
              ISqrt((100 * points[k][1] - centerX)
                      * (100 * points[k][1] - centerX)
                    + (100 * points[k][2] - centerY)
                      * (100 * points[k][2] - centerY))]
      avgRadius == Sum(r, n) \div n
      variance == Sum([k \in 1 .. n |-> Abs(r[k] - avgRadius)], n) \div n
  IN IF n < 10
       THEN NoShape
       ELSE IF 100 * closedDistance > 15 * totalLength
         THEN NoShape
         ELSE IF avgRadius > 0 /\ 5 * variance < avgRadius
           THEN [type |-> "circle",
                 confidence |-> 1000 - (1000 * variance) \div avgRadius,
                 points |->
                   [i \in 1 .. 65 |->
                      <<(centerX
                         + (avgRadius * Cos64[((i - 1) % 64) + 1]) \div 1000)
                        \div 100,
                        (centerY
                         + (avgRadius * Cos64[((i + 47) % 64) + 1]) \div 1000)
                        \div 100>>]]
           ELSE NoShape

\* Math.atan2 of a zero vector is 0, the direction of (1, 0)
Direction(from, to) ==
  IF from = to THEN <<1, 0>> ELSE <<to[1] - from[1], to[2] - from[2]>>

\* the normalised difference of the two atan2 angles exceeds Math.PI / 4:
\* the cosine of the angle between the directions is under 1 / sqrt(2)
TurnsOver45(prev, curr, next) ==
  LET a == Direction(prev, curr)
      b == Direction(curr, next)
      dot == a[1] * b[1] + a[2] * b[2]
  IN \/ dot < 0
     \/ 2 * dot * dot < (a[1] * a[1] + a[2] * a[2]) * (b[1] * b[1] + b[2] * b[2])

\* recognizeRectangle, the corner loop from index i (1-based) on: a point
\* where the direction turns by more than 45 degrees over two points each
\* way is a corner unless a corner is within a tenth of the path length
RECURSIVE Corners(_, _, _, _)
Corners(points, totalLength, i, corners) ==
  IF i > Len(points) - 2
    THEN corners
    ELSE LET curr == points[i]
             tooClose ==
               \E c \in 1 .. Len(corners) :
                 10 * Distance(corners[c], curr) < totalLength
         IN Corners(points, totalLength, i + 1,
                    IF /\ TurnsOver45(points[i - 2], curr, points[i + 2])
                       /\ ~tooClose
                      THEN Append(corners, curr)
                      ELSE corners)

MinOf(S) == CHOOSE a \in S : \A b \in S : a <= b

MaxOf(S) == CHOOSE a \in S : \A b \in S : a >= b

\* recognizeRectangle
RecognizeRectangle(points) ==
  LET n == Len(points)
      totalLength == PathLength(points)
      closedDistance == Distance(points[1], points[n])
      corners == Corners(points, totalLength, 3, <<points[1]>>)
      xs == {corners[c][1] : c \in 1 .. Len(corners)}
      ys == {corners[c][2] : c \in 1 .. Len(corners)}
  IN IF n < 15
       THEN NoShape
       ELSE IF 100 * closedDistance > 15 * totalLength
         THEN NoShape
         ELSE IF Len(corners) # 4
           THEN NoShape
           ELSE [type |-> "rectangle",
                 confidence |-> 750,
                 points |-> <<<<MinOf(xs), MinOf(ys)>>,
                              <<MaxOf(xs), MinOf(ys)>>,
                              <<MaxOf(xs), MaxOf(ys)>>,
                              <<MinOf(xs), MaxOf(ys)>>,
                              <<MinOf(xs), MinOf(ys)>>>>]

\* recognizeArrow: the first floor(0.7 * n) points are a line, at least 3
\* points follow and start within a tenth of the line part's length of its
\* end; the head is 0.2 of the line long at -30 and +30 degrees
RecognizeArrow(points) ==
  LET n == Len(points)
      linePartEnd == (7 * n) \div 10
      linePart == SubSeq(points, 1, linePartEnd)
      lineResult == RecognizeLine(linePart)
      headPart == SubSeq(points, linePartEnd + 1, n)
      start == lineResult.points[1]
      end == lineResult.points[2]
      dx == end[1] - start[1]
      dy == end[2] - start[2]
  IN IF n < 8
       THEN NoShape
       ELSE IF lineResult = NoShape \/ lineResult.confidence < 800
         THEN NoShape
         ELSE IF Len(headPart) < 3
           THEN NoShape
           ELSE IF 10 * Distance(linePart[linePartEnd], headPart[1])
                     > PathLength(linePart)
             THEN NoShape
             ELSE [type |-> "arrow",
                   confidence |-> 750,
                   points |->
                     <<start, end,
                       <<end[1] - (866 * dx + 500 * dy) \div 5000,
                         end[2] - (866 * dy - 500 * dx) \div 5000>>,
                       end,
                       <<end[1] - (866 * dx - 500 * dy) \div 5000,
                         end[2] - (866 * dy + 500 * dx) \div 5000>>>>]

\* recognizeShape: line, circle, rectangle, arrow in this order, each
\* returned only if its confidence exceeds its gate
RecognizeShapeRectangleFirst(points) ==
  IF Len(points) < 5
    THEN NoShape
    ELSE IF RecognizeRectangle(points).confidence > 700
      THEN RecognizeRectangle(points)
      ELSE IF RecognizeLine(points).confidence > 800
        THEN RecognizeLine(points)
        ELSE IF RecognizeCircle(points).confidence > 700
          THEN RecognizeCircle(points)
          ELSE IF RecognizeArrow(points).confidence > 750
            THEN RecognizeArrow(points)
            ELSE NoShape

RecognizeShape(points) ==
  IF Len(points) < 5
    THEN NoShape
    ELSE IF RecognizeLine(points).confidence > 800
      THEN RecognizeLine(points)
      ELSE IF RecognizeCircle(points).confidence > 700
        THEN RecognizeCircle(points)
        ELSE IF RecognizeRectangle(points).confidence > 700
          THEN RecognizeRectangle(points)
          ELSE IF RecognizeArrow(points).confidence > 750
            THEN RecognizeArrow(points)
            ELSE NoShape

\* ------------------------------------------------------------------ Init
\* ------------------------------------------------ components/SketchPad
\* SketchPad with initialPaths = [] and the pen settings it starts with
\* (penColor '#000000', penSize 3, penStyle 'writing', penOpacity 1,
\* backgroundColor '#ffffff').  last is the handler that ran last.
NoPad ==
  [tool |-> "pen", isDrawing |-> FALSE, currentPath |-> NoPath,
   drawingPaths |-> <<>>, history |-> << <<>> >>, historyIndex |-> 0,
   nextId |-> 0, last |-> "mount"]

\* no drag in progress, no listener on the document
NoDrag == [draggedAnnotation |-> 0, listeners |-> {}]

\* A JSON value as JSON.parse returns it: its kind, and the number, the
\* string or the elements it holds.  "undefined" is a property that the
\* parsed object does not have.
Json(kind, num, str, items) ==
  [kind |-> kind, num |-> num, str |-> str, items |-> items]

Undefined == Json("undefined", 0, "", <<>>)

\* !v
Falsy(v) ==
  \/ v.kind \in {"undefined", "null"}
  \/ v.kind = "number" /\ v.num = 0
  \/ v.kind = "string" /\ v.str = ""

\* Array.isArray(v)
IsArray(v) == v.kind = "array"

\* A file handed to the import: whether its text parses, what the text
\* parses to ("null", "number" or "object"), and the name and paths
\* properties of the object.
NoFile == [parse |-> "none", name |-> Undefined, paths |-> Undefined]

\* an empty sketches store, no sketchStorage call made yet
NoSketches ==
  [sketches |-> <<>>, nextSketch |-> 0, call |-> "none", result |-> "none",
   file |-> NoFile]

\* ------------------------------------------------ pen favorites store
\* MAX_FAVORITES
MAX_FAVORITES == 10

\* saves of one run of the store
MaxSaves == 7

\* names a favorite is given
FavNames == {"a"}

\* empty storage: localStorage.getItem('pen_favorites') is null
NoFavorites ==
  [present |-> FALSE, list |-> <<>>, now |-> 3, saves |-> 0,
   call |-> "none", result |-> "none"]

\* what a call of the store leaves alone
favFrame ==
  <<appVars, canvasVars, heldTool, lastEvent, exp, trial, pad, textDrag,
    sketchDB, fileVars>>

\* getDefaultFavorites: default_1 .. default_4 (ids -1 .. -4 here) with
\* timestamps Date.now(), Date.now() - 1, Date.now() - 2, Date.now() - 3
GetDefaultFavorites(now) ==
  [k \in 1 .. 4 |-> [id |-> 0 - k, name |-> "default",
                     timestamp |-> now - (k - 1)]]

\* one favorite put into a list that is sorted by falling timestamp,
\* behind the entries that are not older
RECURSIVE InsertByTimestamp(_, _)
InsertByTimestamp(list, fav) ==
  IF list = <<>> THEN <<fav>>
  ELSE IF Head(list).timestamp >= fav.timestamp
    THEN <<Head(list)>> \o InsertByTimestamp(Tail(list), fav)
    ELSE <<fav>> \o list

\* favorites.sort((a, b) => b.timestamp - a.timestamp), a stable sort
RECURSIVE SortByTimestamp(_)
SortByTimestamp(list) ==
  IF list = <<>> THEN <<>>
  ELSE InsertByTimestamp(SortByTimestamp(SubSeq(list, 1, Len(list) - 1)),
                         list[Len(list)])

\* getPenFavorites: the defaults when nothing is stored
GetPenFavorites(store) ==
  IF ~store.present
    THEN GetDefaultFavorites(store.now)
    ELSE SortByTimestamp(store.list)

\* savePenFavorite that refuses only above the limit
SavePenFavoriteAboveLimit(name, ok) ==
  LET favorites == GetPenFavorites(penStore)
      newFavorite == [id |-> penStore.saves + 1, name |-> name,
                      timestamp |-> penStore.now + 1]
  IN /\ penStore.saves < MaxSaves
     /\ penStore' =
          IF Len(favorites) > MAX_FAVORITES \/ ~ok
            THEN [penStore EXCEPT !.call = "save", !.result = "error"]
            ELSE [penStore EXCEPT
                    !.present = TRUE,
                    !.list = Append(favorites, newFavorite),
                    !.now = @ + 1, !.saves = @ + 1,
                    !.call = "save", !.result = "ok"]
     /\ UNCHANGED favFrame

\* savePenFavorite(favorite); ok is whether localStorage.setItem takes the
\* new list (it throws when the quota is used up).  The clock moves on with
\* every favorite that is stored.
SavePenFavorite(name, ok) ==
  LET favorites == GetPenFavorites(penStore)
      newFavorite == [id |-> penStore.saves + 1, name |-> name,
                      timestamp |-> penStore.now + 1]
  IN /\ penStore.saves < MaxSaves
     /\ penStore' =
          IF Len(favorites) >= MAX_FAVORITES \/ ~ok
            THEN [penStore EXCEPT !.call = "save", !.result = "error"]
            ELSE [penStore EXCEPT
                    !.present = TRUE,
                    !.list = Append(favorites, newFavorite),
                    !.now = @ + 1, !.saves = @ + 1,
                    !.call = "save", !.result = "ok"]
     /\ UNCHANGED favFrame

\* deletePenFavorite(id)
DeletePenFavorite(id) ==
  /\ penStore' =
       [penStore EXCEPT
          !.present = TRUE,
          !.list = SelectSeq(GetPenFavorites(penStore),
                             LAMBDA fav : fav.id # id),
          !.call = "delete", !.result = "ok"]
  /\ UNCHANGED favFrame

\* updatePenFavorite(id, { name })
UpdatePenFavorite(id, name) ==
  /\ penStore' =
       [penStore EXCEPT
          !.present = TRUE,
          !.list = [k \in 1 .. Len(GetPenFavorites(penStore)) |->
                      IF GetPenFavorites(penStore)[k].id = id
                        THEN [GetPenFavorites(penStore)[k]
                                EXCEPT !.name = name]
                        ELSE GetPenFavorites(penStore)[k]],
          !.call = "update", !.result = "ok"]
  /\ UNCHANGED favFrame

SideInit ==
  /\ pad = NoPad
  /\ textDrag = NoDrag
  /\ sketchDB = NoSketches
  /\ penStore = NoFavorites
  /\ recentFiles = [pending |-> TRUE, list |-> <<>>]
  /\ view = [scale |-> 6, hasManualZoom |-> FALSE]

\* what a SketchPad handler leaves alone
padFrame ==
  <<appVars, canvasVars, heldTool, lastEvent, exp, trial, textDrag,
    sketchDB, penStore, fileVars>>

\* onClick={() => setTool(t)}
PadSetTool(t) ==
  /\ pad' = [pad EXCEPT !.tool = t, !.last = "setTool"]
  /\ UNCHANGED padFrame

\* onMouseDown -> startDrawing(getMousePos(e))
PadStartDrawing(pos) ==
  /\ pad.nextId < MaxStrokes
  /\ pad' =
       IF pad.tool = "pan"
         THEN [pad EXCEPT !.last = "startDrawing"]
         ELSE [pad EXCEPT
                 !.isDrawing = TRUE,
                 !.currentPath =
                   [id |-> pad.nextId + 1, points |-> <<pos>>,
                    color |-> IF pad.tool = "eraser"
                                THEN "#ffffff" ELSE "#000000",
                    size |-> IF pad.tool = "eraser" THEN 3 * 3 ELSE 3,
                    tool |-> IF pad.tool = "eraser" THEN "eraser" ELSE "pen",
                    penStyle |-> "writing", opacity |-> 10,
                    pressure |-> <<5>>],
                 !.nextId = @ + 1,
                 !.last = "startDrawing"]
  /\ UNCHANGED padFrame

\* onMouseMove -> draw(getMousePos(e)): every sample is kept
PadDraw(pos) ==
  /\ pad.currentPath # NoPath => Len(pad.currentPath.points) <= MaxPts
  /\ pad' =
       IF ~pad.isDrawing \/ pad.currentPath = NoPath \/ pad.tool = "pan"
         THEN [pad EXCEPT !.last = "draw"]
         ELSE [pad EXCEPT
                 !.currentPath.points = Append(@, pos),
                 !.currentPath.pressure = Append(@, 5),
                 !.last = "draw"]
  /\ UNCHANGED padFrame

\* onMouseUp, onMouseLeave -> stopDrawing, with its saveToHistory
PadStopDrawing ==
  /\ Len(SubSeq(pad.history, 1, pad.historyIndex + 1)) < MaxHistory
  /\ pad' =
       IF /\ pad.isDrawing
          /\ pad.currentPath # NoPath
          /\ Len(pad.currentPath.points) > 1
         THEN [pad EXCEPT
                 !.drawingPaths = Append(@, pad.currentPath),
                 !.history =
                   SaveToHistory(pad.history, pad.historyIndex,
                                 Append(pad.drawingPaths, pad.currentPath)),
                 !.historyIndex =
                   Len(SaveToHistory(pad.history, pad.historyIndex,
                                     Append(pad.drawingPaths,
                                            pad.currentPath))) - 1,
                 !.isDrawing = FALSE,
                 !.currentPath = NoPath,
                 !.last = "stopDrawing"]
         ELSE [pad EXCEPT
                 !.isDrawing = FALSE,
                 !.currentPath = NoPath,
                 !.last = "stopDrawing"]
  /\ UNCHANGED padFrame

\* undo
PadUndo ==
  /\ pad.historyIndex > 0
  /\ pad' = [pad EXCEPT
               !.historyIndex = @ - 1,
               !.drawingPaths = pad.history[pad.historyIndex],
               !.last = "undo"]
  /\ UNCHANGED padFrame

\* redo
PadRedo ==
  /\ pad.historyIndex < Len(pad.history) - 1
  /\ pad' = [pad EXCEPT
               !.historyIndex = @ + 1,
               !.drawingPaths = pad.history[pad.historyIndex + 2],
               !.last = "redo"]
  /\ UNCHANGED padFrame

\* clearCanvas, the confirm() answered with OK
PadClearCanvas ==
  /\ Len(SubSeq(pad.history, 1, pad.historyIndex + 1)) < MaxHistory
  /\ pad' = [pad EXCEPT
               !.drawingPaths = <<>>,
               !.history = SaveToHistory(pad.history, pad.historyIndex, <<>>),
               !.historyIndex =
                 Len(SaveToHistory(pad.history, pad.historyIndex, <<>>)) - 1,
               !.last = "clearCanvas"]
  /\ UNCHANGED padFrame

\* The state right after handleFileSelect and handleDocumentLoadSuccess.
Init ==
  /\ currentPage = 1
  /\ pageInput = "1"
  /\ drawingTool = "pen"
  /\ penSize = 2
  /\ drawingPaths = <<>>
  /\ history = << <<>> >>
  /\ historyIndex = 0
  /\ textAnnotations = <<>>
  /\ allPageAnnotations = [p \in 1 .. NumPages |-> <<>>]
  /\ allPageTextAnnotations = [p \in 1 .. NumPages |-> <<>>]
  /\ isDrawing = FALSE
  /\ currentPath = NoPath
  /\ isErasing = FALSE
  /\ isPanning = FALSE
  /\ nextId = 0
  /\ nextTextId = 0
  /\ shapeRecognitionEnabled = TRUE
  /\ heldTool = "none"
  /\ lastEvent = [type |-> "fileSelect", arg |-> 0, idx |-> 0, len |-> 1]
  /\ exp = NoExport
  /\ trial = NoTrial
  /\ SideInit

\* --------------------------------------------------- App: annotation store
\* handlePathDrawn, finalPath: { ...path, points: recognized.points,
\* pressure: undefined } when recognition is enabled, the stroke is a pen
\* stroke of at least 5 points and recognizeShape returns a shape; the
\* discarded pressure is the empty list here
FinalPathWhenDisabledToo(path, enabled) ==
  IF /\ path.tool = "pen"
     /\ Len(path.points) >= 5
     /\ RecognizeShape(path.points) # NoShape
    THEN [path EXCEPT !.points = RecognizeShape(path.points).points,
                      !.pressure = <<>>]
    ELSE path

FinalPath(path, enabled) ==
  IF /\ enabled
     /\ path.tool = "pen"
     /\ Len(path.points) >= 5
     /\ RecognizeShape(path.points) # NoShape
    THEN [path EXCEPT !.points = RecognizeShape(path.points).points,
                      !.pressure = <<>>]
    ELSE path

\* handlePathDrawn
HandlePathDrawn(path) ==
  LET newPaths ==
        Append(drawingPaths, FinalPath(path, shapeRecognitionEnabled))
  IN /\ drawingPaths' = newPaths
     /\ history' = SaveToHistory(history, historyIndex, newPaths)
     /\ historyIndex' = Len(history') - 1

\* handlePathErased with setDrawingPaths(prev => prev.filter(...)): the
\* stroke list loses every hit path, the snapshot is the last call's list
HandlePathsErasedFunctional(toErase) ==
  LET newPaths == ForEachErased(drawingPaths, toErase, 1, drawingPaths)
  IN IF toErase = <<>>
       THEN UNCHANGED <<drawingPaths, history, historyIndex>>
       ELSE /\ drawingPaths' =
                 SelectSeq(drawingPaths,
                           LAMBDA path :
                             \A k \in 1 .. Len(toErase) :
                               toErase[k].id # path.id)
            /\ history' = SaveToHistory(history, historyIndex, newPaths)
            /\ historyIndex' = Len(history') - 1

\* handlePathErased called once per hit path by the eraser's forEach
HandlePathsErased(toErase) ==
  LET newPaths == ForEachErased(drawingPaths, toErase, 1, drawingPaths)
  IN IF toErase = <<>>
       THEN UNCHANGED <<drawingPaths, history, historyIndex>>
       ELSE /\ drawingPaths' = newPaths
            /\ history' = SaveToHistory(history, historyIndex, newPaths)
            /\ historyIndex' = Len(history') - 1

\* room left for the snapshot a commit pushes
HistoryRoom == Len(SubSeq(history, 1, historyIndex + 1)) < MaxHistory

\* Clear All onClick
ClearAll ==
  /\ HistoryRoom
  /\ drawingPaths' = <<>>
  /\ history' = SaveToHistory(history, historyIndex, <<>>)
  /\ historyIndex' = Len(history') - 1
  /\ lastEvent' = Event("clearAll", 0)
  /\ UNCHANGED <<currentPage, pageInput, drawingTool, penSize,
                 textAnnotations, allPageAnnotations,
                 allPageTextAnnotations, nextId, nextTextId, canvasVars,
                 heldTool, exp,
                 shapeRecognitionEnabled>>

\* undo (button and Ctrl+Z; the handler itself checks the bound)
UndoIndexNoGuard(idx) == idx - 1

UndoIndex(idx) == IF idx > 0 THEN idx - 1 ELSE idx

Undo ==
  /\ historyIndex' = UndoIndex(historyIndex)
  /\ drawingPaths' = IF historyIndex > 0
                        THEN history[historyIndex' + 1]
                        ELSE drawingPaths
  /\ lastEvent' = Event("undo", 0)
  /\ UNCHANGED <<currentPage, pageInput, drawingTool, penSize, history,
                 textAnnotations, allPageAnnotations,
                 allPageTextAnnotations, nextId, nextTextId, canvasVars,
                 heldTool, exp,
                 shapeRecognitionEnabled>>

\* redo (button, Ctrl+Y and Ctrl+Shift+Z)
RedoIndex(idx, len) == IF idx < len - 1 THEN idx + 1 ELSE idx

Redo ==
  /\ historyIndex' = RedoIndex(historyIndex, Len(history))
  /\ drawingPaths' = IF historyIndex < Len(history) - 1
                        THEN history[historyIndex' + 1]
                        ELSE drawingPaths
  /\ lastEvent' = Event("redo", 0)
  /\ UNCHANGED <<currentPage, pageInput, drawingTool, penSize, history,
                 textAnnotations, allPageAnnotations,
                 allPageTextAnnotations, nextId, nextTextId, canvasVars,
                 heldTool, exp,
                 shapeRecognitionEnabled>>

\* setDrawingTool (toolbar buttons and Ctrl+P/E/T/M)
SetDrawingTool(t) ==
  /\ drawingTool' = t
  /\ lastEvent' = Event("setTool", 0)
  /\ UNCHANGED <<currentPage, pageInput, penSize, drawingPaths, history,
                 historyIndex, textAnnotations, allPageAnnotations,
                 allPageTextAnnotations, nextId, nextTextId, canvasVars,
                 heldTool, exp,
                 shapeRecognitionEnabled>>

\* the Shapes ON / Shapes OFF button
ToggleShapeRecognition ==
  /\ shapeRecognitionEnabled' = ~shapeRecognitionEnabled
  /\ lastEvent' = Event("toggleShapes", 0)
  /\ UNCHANGED <<currentPage, pageInput, drawingTool, penSize, drawingPaths,
                 history, historyIndex, textAnnotations, allPageAnnotations,
                 allPageTextAnnotations, nextId, nextTextId, canvasVars,
                 heldTool, exp>>

\* ------------------------------------------------ App: page navigation
\* loadPageAnnotations reads the allPageAnnotations of the current render:
\* the update queued by saveCurrentPageAnnotations is not in it yet.
LoadedPaths(store, live, from, page) == store[page]

\* saveCurrentPageAnnotations: newMap.set(currentPage, [...live]), for the
\* strokes and for the text annotations
SaveCurrentPageEverywhere(store, page, live) == [p \in DOMAIN store |-> live]

SaveCurrentPage(store, page, live) == [store EXCEPT ![page] = live]

\* loadPageAnnotations: setHistory([paths])
FreshHistoryKeepsBlank(paths) == << <<>>, paths >>

FreshHistory(paths) == <<paths>>

\* canUndo and canRedo, which enable the undo and redo buttons
CanUndo(idx) == idx > 0

CanRedo(idx, len) == idx < len - 1

\* saveCurrentPageAnnotations(); setCurrentPage; setPageInput;
\* loadPageAnnotations(page)
SwitchPage(page) ==
  /\ allPageAnnotations' =
       SaveCurrentPage(allPageAnnotations, currentPage, drawingPaths)
  /\ allPageTextAnnotations' =
       SaveCurrentPage(allPageTextAnnotations, currentPage, textAnnotations)
  /\ currentPage' = page
  /\ pageInput' = PageStr(page)
  /\ drawingPaths' =
       LoadedPaths(allPageAnnotations, drawingPaths, currentPage, page)
  /\ textAnnotations' =
       LoadedPaths(allPageTextAnnotations, textAnnotations, currentPage, page)
  /\ history' = FreshHistory(drawingPaths')
  /\ historyIndex' = 0
  /\ UNCHANGED <<drawingTool, penSize, nextId, nextTextId, canvasVars,
                 heldTool, exp,
                 shapeRecognitionEnabled>>

Max(a, b) == IF a > b THEN a ELSE b

Min(a, b) == IF a < b THEN a ELSE b

\* goToPreviousPage: the button is disabled, and handleAutoScrollPrevious
\* returns, unless currentPage > 1
GoToPreviousPage ==
  /\ currentPage > 1
  /\ SwitchPage(Max(currentPage - 1, 1))
  /\ lastEvent' = Event("previousPage", 0)

\* goToNextPage: the button is disabled, and handleAutoScrollNext returns,
\* unless currentPage < numPages
GoToNextPage ==
  /\ currentPage < NumPages
  /\ SwitchPage(Min(currentPage + 1, NumPages))
  /\ lastEvent' = Event("nextPage", 0)

\* handlePageInputChange
PageInputChange(v) ==
  /\ pageInput' = v
  /\ lastEvent' = Event("pageInputChange", 0)
  /\ UNCHANGED <<currentPage, drawingTool, penSize, drawingPaths, history,
                 historyIndex, textAnnotations, allPageAnnotations,
                 allPageTextAnnotations, nextId, nextTextId, canvasVars,
                 heldTool, exp,
                 shapeRecognitionEnabled>>

\* !isNaN(page) && numPages && page >= 1 && page <= numPages
ValidPage(page) ==
  ~page.isNaN /\ page.value >= 1 /\ page.value <= NumPages

\* the shared body of handlePageInputSubmit (Enter) and handlePageInputBlur
PageInputCommit ==
  IF ValidPage(ParseInt(pageInput))
    THEN SwitchPage(ParseInt(pageInput).value)
    ELSE /\ pageInput' = PageStr(currentPage)
         /\ UNCHANGED <<currentPage, drawingTool, penSize, drawingPaths,
                        history, historyIndex, textAnnotations,
                        allPageAnnotations, allPageTextAnnotations, nextId,
                        nextTextId, canvasVars, heldTool, exp,
                        shapeRecognitionEnabled>>

PageInputSubmit ==
  /\ PageInputCommit
  /\ lastEvent' = Event("pageInputEnter", 0)

PageInputBlur ==
  /\ PageInputCommit
  /\ lastEvent' = Event("pageInputBlur", 0)

\* handleFileSelect (and the document load that sets numPages): a new file
\* resets the store and the history; DrawingCanvas keeps its own state
FileSelect ==
  /\ currentPage' = 1
  /\ drawingPaths' = <<>>
  /\ textAnnotations' = <<>>
  /\ history' = << <<>> >>
  /\ historyIndex' = 0
  /\ allPageAnnotations' = [p \in 1 .. NumPages |-> <<>>]
  /\ allPageTextAnnotations' = [p \in 1 .. NumPages |-> <<>>]
  /\ recentFiles' = [recentFiles EXCEPT !.pending = TRUE]
  /\ view' = [view EXCEPT !.hasManualZoom = FALSE]
  /\ lastEvent' = Event("fileSelect", 0)
  /\ UNCHANGED <<pageInput, drawingTool, penSize, nextId, nextTextId,
                 canvasVars, heldTool, exp, shapeRecognitionEnabled>>

\* addToRecentFiles settles, some time after handleFileSelect started it.
\* "ok": the list and the file data are stored; "quota": the first
\* localStorage.setItem throws; "data": the list is stored, then
\* fileToBase64 or the second setItem throws.  addToRecentFiles catches
\* and logs every error, and nothing follows the await in handleFileSelect.
RecentFilesSettled(outcome) ==
  /\ recentFiles.pending
  /\ recentFiles' =
       [pending |-> FALSE,
        list |-> IF outcome = "quota" THEN recentFiles.list ELSE <<"a.pdf">>]
  /\ lastEvent' = Event("recentFiles", outcome)
  /\ UNCHANGED <<appVars, canvasVars, heldTool, exp, view>>

\* ------------------------------------------------ App: text annotations
\* PDFViewer.handleCanvasClick -> handleTextAdd (prompt answered with text)
TextAdd(q, text) ==
  /\ drawingTool = "text"
  /\ nextTextId < MaxTexts
  /\ nextTextId' = nextTextId + 1
  /\ textAnnotations' =
       Append(textAnnotations,
              [id |-> nextTextId + 1, text |-> text, x |-> q[1], y |-> q[2]])
  /\ lastEvent' = Event("textAdd", 0)
  /\ UNCHANGED <<currentPage, pageInput, drawingTool, penSize, drawingPaths,
                 history, historyIndex, allPageAnnotations,
                 allPageTextAnnotations, nextId, canvasVars, heldTool, exp,
                 shapeRecognitionEnabled>>

\* onContextMenu -> handleTextDelete
TextDelete(i) ==
  /\ i \in 1 .. Len(textAnnotations)
  /\ textDrag.draggedAnnotation # textAnnotations[i].id
  /\ textAnnotations' =
       SelectSeq(textAnnotations, LAMBDA a : a.id # textAnnotations[i].id)
  /\ lastEvent' = Event("textDelete", 0)
  /\ UNCHANGED <<currentPage, pageInput, drawingTool, penSize, drawingPaths,
                 history, historyIndex, allPageAnnotations,
                 allPageTextAnnotations, nextId, nextTextId, canvasVars,
                 heldTool, exp,
                 shapeRecognitionEnabled>>

\* onDoubleClick -> handleTextUpdate
TextUpdate(i, text) ==
  /\ i \in 1 .. Len(textAnnotations)
  /\ textDrag.draggedAnnotation # textAnnotations[i].id
  /\ textAnnotations' =
       [k \in 1 .. Len(textAnnotations) |->
          IF textAnnotations[k].id = textAnnotations[i].id
            THEN [textAnnotations[k] EXCEPT !.text = text]
            ELSE textAnnotations[k]]
  /\ lastEvent' = Event("textUpdate", 0)
  /\ UNCHANGED <<currentPage, pageInput, drawingTool, penSize, drawingPaths,
                 history, historyIndex, allPageAnnotations,
                 allPageTextAnnotations, nextId, nextTextId, canvasVars,
                 heldTool, exp,
                 shapeRecognitionEnabled>>

\* TextAnnotation drag -> handleTextMove
TextMove(i, q) ==
  /\ i \in 1 .. Len(textAnnotations)
  /\ textAnnotations' =
       [k \in 1 .. Len(textAnnotations) |->
          IF textAnnotations[k].id = textAnnotations[i].id
            THEN [textAnnotations[k] EXCEPT !.x = q[1], !.y = q[2]]
            ELSE textAnnotations[k]]
  /\ lastEvent' = Event("textMove", 0)
  /\ UNCHANGED <<currentPage, pageInput, drawingTool, penSize, drawingPaths,
                 history, historyIndex, allPageAnnotations,
                 allPageTextAnnotations, nextId, nextTextId, canvasVars,
                 heldTool, exp,
                 shapeRecognitionEnabled>>

\* ------------------------------------- TextAnnotation: dragging a label
\* (rect.width / scale) - 100 and (rect.height / scale) - 50 of the page
\* container, in document units
DragLimit == <<6, 8>>

\* Math.max(0, Math.min(v, limit))
Clamp(v, limit) ==
  IF (IF v < limit THEN v ELSE limit) > 0
    THEN (IF v < limit THEN v ELSE limit)
    ELSE 0

\* handleTextMove for every id in ids, each call with the same (x, y)
HandleTextMove(texts, ids, x, y) ==
  [k \in 1 .. Len(texts) |->
     IF texts[k].id \in ids
       THEN [texts[k] EXCEPT !.x = x, !.y = y]
       ELSE texts[k]]

\* what a TextAnnotation drag handler leaves alone
dragFrame ==
  <<currentPage, pageInput, drawingTool, penSize, drawingPaths, history,
    historyIndex, allPageAnnotations, allPageTextAnnotations, nextId,
    nextTextId, shapeRecognitionEnabled, canvasVars, heldTool, exp, trial,
    pad, sketchDB, penStore, fileVars>>

\* handleMouseDown on the i-th label, pressed at its centre (dragOffset
\* (0, 0)).  document.addEventListener registers the handleMouseMove and
\* handleMouseUp of the render the press happened in: functions that read
\* the draggedAnnotation of that render.  listeners holds, for every
\* handleMouseMove registered, the draggedAnnotation it reads (0 = null).
TextMouseDown(i, button) ==
  /\ i \in 1 .. Len(textAnnotations)
  /\ textDrag' =
       IF button = 2
         THEN textDrag
         ELSE [draggedAnnotation |-> textAnnotations[i].id,
               listeners |->
                 textDrag.listeners \cup {textDrag.draggedAnnotation}]
  /\ lastEvent' = Event("textMouseDown", button)
  /\ UNCHANGED <<textAnnotations, dragFrame>>

\* a mousemove on the document at q (document units, scale 1): every
\* registered handleMouseMove runs, and calls onMove if the
\* draggedAnnotation it reads is not null
TextMouseMove(q) ==
  /\ textDrag.listeners # {}
  /\ textAnnotations' =
       HandleTextMove(textAnnotations, textDrag.listeners \ {0},
                      Clamp(q[1], DragLimit[1]), Clamp(q[2], DragLimit[2]))
  /\ lastEvent' = Event("textMouseMove", q)
  /\ UNCHANGED <<textDrag, dragFrame>>

\* a mouseup on the document: every registered handleMouseUp runs, sets
\* draggedAnnotation to null and removes its pair of listeners
TextMouseUp ==
  /\ textDrag.listeners # {}
  /\ textDrag' = NoDrag
  /\ lastEvent' = Event("textMouseUp", 0)
  /\ UNCHANGED <<textAnnotations, dragFrame>>

\* ------------------------------------------------- utils/sketchStorage
\* importSketchFromJSON, the validation of the parsed data: the check
\* throws 'Invalid sketch file format' unless data.paths is truthy and an
\* array
ValidSketchDataTruthyOnly(data) == ~Falsy(data.paths)

ValidSketchData(data) == ~(Falsy(data.paths) \/ ~IsArray(data.paths))

\* the one message every failure of importSketchFromJSON is rethrown with
ImportError == "Failed to import sketch. Please check the file format."

\* what a sketchStorage call leaves alone
storageFrame ==
  <<appVars, canvasVars, heldTool, lastEvent, exp, trial, pad, textDrag,
    penStore, fileVars>>

\* importSketchFromJSON(file); dbOk is the outcome of saveSketchToDB.
\* JSON.parse throws on a text that is not JSON, data.paths throws on
\* null and is undefined on a number; every throw ends in the catch.
ImportSketchFromJSON(file, dbOk) ==
  /\ sketchDB.nextSketch < MaxSketches
  /\ sketchDB' =
       IF /\ file.parse = "object"
          /\ ValidSketchData(file)
          /\ dbOk
         THEN [sketches |->
                 Append(sketchDB.sketches,
                        [id |-> sketchDB.nextSketch + 1,
                         name |-> IF Falsy(file.name)
                                    THEN "Imported Sketch"
                                    ELSE file.name.str,
                         paths |-> file.paths.items]),
               nextSketch |-> sketchDB.nextSketch + 1,
               call |-> "import", result |-> "ok", file |-> file]
         ELSE [sketchDB EXCEPT
                 !.call = "import", !.result = ImportError, !.file = file]
  /\ UNCHANGED storageFrame

\* deleteSketch(id) of the i-th sketch of the gallery
DeleteSketch(i, dbOk) ==
  /\ i \in 1 .. Len(sketchDB.sketches)
  /\ sketchDB' =
       IF dbOk
         THEN [sketchDB EXCEPT
                 !.sketches =
                   SelectSeq(@, LAMBDA k : k.id # sketchDB.sketches[i].id),
                 !.call = "delete", !.result = "ok", !.file = NoFile]
         ELSE [sketchDB EXCEPT
                 !.call = "delete", !.result = "Failed to delete sketch",
                 !.file = NoFile]
  /\ UNCHANGED storageFrame

\* ------------------------------------------------------- App: zooming
\* zoomIn: Math.min(prev + 0.25, 15.0)
ZoomIn ==
  /\ view' = [scale |-> IF view.scale + 1 < 60 THEN view.scale + 1 ELSE 60,
              hasManualZoom |-> TRUE]
  /\ lastEvent' = Event("zoomIn", 0)
  /\ UNCHANGED <<appVars, canvasVars, heldTool, exp, recentFiles>>

\* zoomOut: Math.max(prev - 0.25, 0.5)
ZoomOut ==
  /\ view' = [scale |-> IF view.scale - 1 > 2 THEN view.scale - 1 ELSE 2,
              hasManualZoom |-> TRUE]
  /\ lastEvent' = Event("zoomOut", 0)
  /\ UNCHANGED <<appVars, canvasVars, heldTool, exp, recentFiles>>

\* the auto-scale effect (on load, on resize, on a change of the expanded
\* view): Math.max(1.0, Math.min(maxScale, optimalScale)), unless the user
\* has zoomed
AutoFit(optimalScale, maxScale) ==
  /\ ~view.hasManualZoom
  /\ view' =
       [view EXCEPT
          !.scale =
            IF (IF optimalScale < maxScale THEN optimalScale ELSE maxScale)
                 > 4
              THEN (IF optimalScale < maxScale
                      THEN optimalScale ELSE maxScale)
              ELSE 4]
  /\ lastEvent' = Event("autoFit", 0)
  /\ UNCHANGED <<appVars, canvasVars, heldTool, exp, recentFiles>>

\* getCanvasCoordinates, and handleCanvasClick for a text label: the
\* offset from the corner of the canvas, in quarters of a pixel, divided by
\* the scale
GetCanvasCoordinatesUnscaled(offset, scale) ==
  <<offset[1] \div 4, offset[2] \div 4>>

GetCanvasCoordinates(offset, scale) ==
  <<offset[1] \div scale, offset[2] \div scale>>

\* ------------------------------------------ DrawingCanvas: pointer events
appFrame ==
  <<currentPage, pageInput, drawingTool, penSize, textAnnotations,
    allPageAnnotations, allPageTextAnnotations, nextTextId,
    shapeRecognitionEnabled>>

\* startDrawing; penColor, penStyle and penOpacity keep the values App
\* starts with
StartDrawing(q, raw) ==
  /\ nextId < MaxStrokes
  /\ nextId' = nextId + 1
  /\ currentPath' =
       [id |-> nextId + 1, points |-> <<q>>, color |-> "#000000",
        size |-> penSize,
        tool |-> IF CanvasTool = "pan" THEN "pen" ELSE CanvasTool,
        penStyle |-> "writing", opacity |-> 10,
        pressure |-> <<PressureOf(raw)>>]
  /\ isDrawing' = TRUE
  /\ UNCHANGED <<drawingPaths, history, historyIndex, isErasing, isPanning>>

\* handleEraserStart
HandleEraserStart(q) ==
  /\ isErasing' = TRUE
  /\ HandlePathsErased(PathsToErase(drawingPaths, q, penSize))
  /\ UNCHANGED <<isDrawing, currentPath, isPanning, nextId>>

\* handlePointerDown
HandlePointerDown(q, raw) ==
  /\ HistoryRoom
  /\ IF CanvasTool = "eraser"
       THEN HandleEraserStart(q)
       ELSE IF CanvasTool = "pan"
         THEN /\ isPanning' = TRUE
              /\ UNCHANGED <<drawingPaths, history, historyIndex, isDrawing,
                             currentPath, isErasing, nextId>>
         ELSE StartDrawing(q, raw)
  /\ heldTool' = CanvasTool
  /\ lastEvent' = Event("pointerDown", q)
  /\ UNCHANGED <<appFrame, exp>>

\* handleEraserMove
HandleEraserMove(q) ==
  /\ IF isErasing /\ CanvasTool = "eraser"
       THEN HandlePathsErased(PathsToErase(drawingPaths, q, penSize))
       ELSE UNCHANGED <<drawingPaths, history, historyIndex>>
  /\ UNCHANGED <<canvasVars, nextId>>

\* continueDrawing that records the pressure of a sample before the
\* distance test, so a dropped sample still leaves its pressure behind
ContinueDrawingPressureFirst(q, raw) ==
  /\ IF ~isDrawing \/ currentPath = NoPath
       THEN UNCHANGED currentPath
       ELSE IF 4 * Dist2(q, currentPath.points[Len(currentPath.points)]) < 1
         THEN currentPath' =
                [currentPath EXCEPT !.pressure = Append(@, PressureOf(raw))]
         ELSE currentPath' =
                [currentPath EXCEPT
                   !.points = Append(@, q),
                   !.pressure = Append(@, PressureOf(raw))]
  /\ UNCHANGED <<drawingPaths, history, historyIndex, isDrawing, isErasing,
                 isPanning, nextId>>

\* continueDrawing: distance < 0.5 drops the sample (d2 < 0.25, 4*d2 < 1)
ContinueDrawing(q, raw) ==
  /\ IF \/ ~isDrawing
        \/ currentPath = NoPath
        \/ 4 * Dist2(q, currentPath.points[Len(currentPath.points)]) < 1
       THEN UNCHANGED currentPath
       ELSE currentPath' =
              [currentPath EXCEPT
                 !.points = Append(@, q),
                 !.pressure = Append(@, PressureOf(raw))]
  /\ UNCHANGED <<drawingPaths, history, historyIndex, isDrawing, isErasing,
                 isPanning, nextId>>

\* handlePointerMove (onPan only scrolls the view)
HandlePointerMove(q, raw) ==
  /\ HistoryRoom
  /\ currentPath # NoPath => Len(currentPath.points) <= MaxPts
  /\ IF CanvasTool = "eraser"
       THEN HandleEraserMove(q)
       ELSE IF CanvasTool = "pan" /\ isPanning
         THEN UNCHANGED <<drawingPaths, history, historyIndex, canvasVars,
                          nextId>>
         ELSE ContinueDrawing(q, raw)
  /\ UNCHANGED heldTool
  /\ lastEvent' = Event("pointerMove", q)
  /\ UNCHANGED <<appFrame, exp>>

\* stopDrawing
StopDrawing ==
  /\ IF isDrawing /\ currentPath # NoPath
       THEN HandlePathDrawn(currentPath)
       ELSE UNCHANGED <<drawingPaths, history, historyIndex>>
  /\ isDrawing' = FALSE
  /\ currentPath' = NoPath
  /\ UNCHANGED <<isErasing, isPanning, nextId>>

\* handlePointerUp, also bound to onPointerLeave and onPointerCancel
HandlePointerUp ==
  /\ HistoryRoom
  /\ IF CanvasTool = "eraser"
       THEN /\ isErasing' = FALSE
            /\ UNCHANGED <<drawingPaths, history, historyIndex, isDrawing,
                           currentPath, isPanning, nextId>>
       ELSE IF CanvasTool = "pan"
         THEN /\ isPanning' = FALSE
              /\ UNCHANGED <<drawingPaths, history, historyIndex, isDrawing,
                             currentPath, isErasing, nextId>>
         ELSE StopDrawing
  /\ heldTool' = "none"
  /\ lastEvent' = Event("pointerUp", 0)
  /\ UNCHANGED <<appFrame, exp>>

\* ------------------------------------------------- rendering of one stroke
\* One stroke as a renderer draws it: the drawing function and the branch of
\* it that runs, the number of passes, the line width of the first pass in
\* hundredths of a unit, its globalAlpha in thousandths, and the points.
\* Opacity and pressure are in tenths as in the stroke records.
Ink(fn, shape, passes, width, alpha, points) ==
  [fn |-> fn, shape |-> shape, passes |-> passes, width |-> width,
   alpha |-> alpha, points |-> points]

\* the two-point branch draws a line, the general branch a spline
LineOrCurve(n) == IF n = 2 THEN "line" ELSE "curve"

\* DrawingCanvas.drawPath and the per-style functions it dispatches to
DrawPath(path) ==
  LET n == Len(path.points)
      s == path.size
      o == path.opacity
      p == path.pressure[1]
      pts == path.points
  IN CASE path.penStyle = "fountain" ->
            IF n = 1
              THEN Ink("fountain", "dot", 3, (s * 200 * 10) \div 22, o * 95,
                       pts)
              ELSE Ink("fountain", "ribbon", 2, s * (50 + 9 * p), o * 95, pts)
       [] path.penStyle = "ballpoint" ->
            IF n = 1
              THEN Ink("ballpoint", "dot", 2, (s * 200 * 10) \div 22, o * 90,
                       pts)
              ELSE Ink("ballpoint", "curve", 2, s * 110, o * 95, pts)
       [] path.penStyle = "brush" ->
            IF n = 1
              THEN Ink("brush", "dot", 9, (s * 200 * 10) \div 25, o * 90, pts)
              ELSE Ink("brush", "ribbon", 2, s * (20 + 18 * p), o * 80, pts)
       [] path.penStyle = "pencil" ->
            IF n = 1
              THEN Ink("pencil", "dot", 14, (s * 200 * 10) \div 28, o * 80,
                       pts)
              ELSE Ink("pencil", "segments", 4,
                       (s * (60 + 6 * p) * 70) \div 100, o * 15, pts)
       [] path.penStyle = "highlighter" ->
            IF n = 1
              THEN Ink("highlighter", "rect", 3, s * 110,
                       (IF o < 7 THEN o ELSE 7) * 100, pts)
              ELSE Ink("highlighter", "line", 2, s * 150,
                       (IF o < 7 THEN o ELSE 7) * 100, pts)
       [] path.penStyle = "calligraphy" ->
            IF n < 2
              THEN Ink("calligraphy", "none", 0, 0, o * 100, pts)
              ELSE Ink("calligraphy", "ribbon", 1, s * 25, o * 100, pts)
       [] path.penStyle = "drawing" ->
            Ink("drawing", LineOrCurve(n), 3, s * 70, 400, pts)
       [] OTHER ->
            Ink("writing", LineOrCurve(n), 1, s * 100, o * 100, pts)

\* continueDrawing, the real-time drawing of the newest part of
\* updatedPath (at least 2 points): the calligraphy branch, the drawing
\* branch, and the writing branch that every other style falls into.
\* globalAlpha is set in the drawing branch only; elsewhere it is the 1.0
\* of the context.
DrawSegment(path) ==
  LET n == Len(path.points)
      s == path.size
      pts == path.points
      shape == IF n >= 4 THEN "curve" ELSE "line"
  IN IF path.penStyle = "calligraphy"
       THEN Ink("calligraphy", "ribbon", 1, s * 25, 1000, pts)
       ELSE IF path.penStyle = "drawing"
         THEN Ink("drawing", shape, 2, s * 80, 500, pts)
         ELSE Ink("writing", shape, 1, s * 100, 1000, pts)

\* the per-style rule of an ink: the function that drew it, the number of
\* passes, the width and the alpha of the first pass
Rule(ink) ==
  [fn |-> ink.fn, passes |-> ink.passes, width |-> ink.width,
   alpha |-> ink.alpha]

\* point * (scaleX, scaleY)
ScalePoints(points, scaleX, scaleY) ==
  [k \in 1 .. Len(points) |-> <<points[k][1] * scaleX, points[k][2] * scaleY>>]

\* path.size * Math.min(scaleX, scaleY)
ScaledSize(size, scaleX, scaleY) ==
  size * (IF scaleX < scaleY THEN scaleX ELSE scaleY)

\* exportAnnotatedPDF, the body of paths.forEach: a dot for a single point,
\* drawCalligraphyPathToPDF, drawDrawingPathToPDF or drawWritingPathToPDF
\* otherwise; globalAlpha stays at the context's 1.0 except in the drawing
\* style
ExportPath(path, scaleX, scaleY) ==
  LET n == Len(path.points)
      s == ScaledSize(path.size, scaleX, scaleY)
      pts == ScalePoints(path.points, scaleX, scaleY)
  IN IF n = 1
       THEN IF path.penStyle = "calligraphy"
              THEN Ink("export", "rect", 1, (s * 100 * 10) \div 15, 1000, pts)
              ELSE Ink("export", "dot", 1, s * 100, 1000, pts)
       ELSE IF path.penStyle = "calligraphy"
         THEN Ink("calligraphy", "ribbon", 1, s * 25, 1000, pts)
         ELSE IF path.penStyle = "drawing"
           THEN Ink("drawing", LineOrCurve(n), 3, s * 70, 400, pts)
           ELSE Ink("writing", LineOrCurve(n), 1, s * 100, 1000, pts)

\* --------------------------------------------------- App: save as PDF
\* The live annotations of page p: the current page's are in drawingPaths
\* and textAnnotations, every other page's in the per-page maps.
PageStrokes(p) ==
  IF p = currentPage THEN drawingPaths ELSE allPageAnnotations[p]

PageTexts(p) ==
  IF p = currentPage THEN textAnnotations ELSE allPageTextAnnotations[p]

\* what an export must not change
Annotations ==
  [strokes |-> [p \in 1 .. NumPages |-> PageStrokes(p)],
   texts |-> [p \in 1 .. NumPages |-> PageTexts(p)],
   history |-> history,
   historyIndex |-> historyIndex]

\* the tail of every export action: nothing of the page view moves
exportFrame ==
  <<currentPage, pageInput, drawingTool, penSize, drawingPaths, history,
    historyIndex, textAnnotations, nextId, nextTextId, canvasVars, heldTool,
    shapeRecognitionEnabled>>

\* handleSavePDF reached although the Save button is disabled: the
\* function itself does not look at isSaving
HandleSavePDFUnguarded ==
  /\ allPageAnnotations' =
       SaveCurrentPage(allPageAnnotations, currentPage, drawingPaths)
  /\ allPageTextAnnotations' =
       SaveCurrentPage(allPageTextAnnotations, currentPage, textAnnotations)
  /\ exp' = [NoExport EXCEPT
               !.pc = "load",
               !.isSaving = TRUE,
               !.before = Annotations,
               !.finalAnnotations =
                 [allPageAnnotations EXCEPT ![currentPage] = drawingPaths]]
  /\ lastEvent' = Event("savePDF", 0)
  /\ UNCHANGED exportFrame

\* The Save PDF button's onClick, with a file loaded.  The button is
\* rendered with disabled={isSaving}, and the render that follows
\* setIsSaving(true) is committed before the next click is dispatched, so
\* a click runs the handler only while isSaving is false.
\* handleSavePDF up to its first await: setIsSaving(true),
\* saveCurrentPageAnnotations(), and, after the dynamic import,
\* finalAnnotations = new Map(allPageAnnotations) with the current page set
\* to [...drawingPaths]; text annotations are not handed to the export
HandleSavePDF ==
  /\ ~exp.isSaving
  /\ allPageAnnotations' =
       SaveCurrentPage(allPageAnnotations, currentPage, drawingPaths)
  /\ allPageTextAnnotations' =
       SaveCurrentPage(allPageTextAnnotations, currentPage, textAnnotations)
  /\ exp' = [NoExport EXCEPT
               !.pc = "load",
               !.isSaving = TRUE,
               !.before = Annotations,
               !.finalAnnotations =
                 [allPageAnnotations EXCEPT ![currentPage] = drawingPaths]]
  /\ lastEvent' = Event("savePDF", 0)
  /\ UNCHANGED exportFrame

\* handleSavePDF's catch and finally after exportAnnotatedPDF rethrows:
\* alert(errorMessage), setIsSaving(false)
ExportThrows(e, step) ==
  [e EXCEPT !.pc = "done", !.failed = @ \cup {step}, !.alert = "error",
            !.isSaving = FALSE]

\* import('pdf-lib'), originalPdfFile.arrayBuffer(), PDFDocument.load
ExportLoad(ok) ==
  /\ exp.pc = "load"
  /\ exp' = IF ok
              THEN [exp EXCEPT !.pc = "pages", !.pageNum = 0]
              ELSE ExportThrows(exp, "load")
  /\ lastEvent' = Event("exportLoad", 0)
  /\ UNCHANGED <<exportFrame, allPageAnnotations, allPageTextAnnotations>>

\* one iteration of the page loop; pageNum is 0-based as in the code
ExportPage(outcome, scaleX, scaleY) ==
  LET page == exp.pageNum + 1
      paths == exp.finalAnnotations[page]
  IN /\ exp.pc = "pages"
     /\ exp.pageNum < NumPages
     /\ exp' =
          IF paths = <<>> \/ outcome = "noContext"
            THEN [exp EXCEPT
                    !.pageNum = @ + 1,
                    !.job[page] = "skipped",
                    !.failed = IF paths = <<>> THEN @ ELSE @ \cup {"context"}]
            ELSE IF outcome = "ok"
              THEN [exp EXCEPT
                      !.pageNum = @ + 1,
                      !.job[page] = "embedded",
                      !.scale[page] = <<scaleX, scaleY>>,
                      !.layers[page] =
                        [ink |-> [k \in 1 .. Len(paths) |->
                                    ExportPath(paths[k], scaleX, scaleY)],
                         strokes |-> [k \in 1 .. Len(paths) |-> paths[k].id],
                         texts |-> <<>>],
                      !.embedded = @ \cup {page}]
              ELSE ExportThrows(exp, outcome)
     /\ lastEvent' = Event("exportPage", 0)
     /\ UNCHANGED <<exportFrame, allPageAnnotations, allPageTextAnnotations>>

\* The same iteration, await by await.  job[p] is where page p stands:
\* "todo", "skipped" (no strokes, or no 2d context: continue), "raster"
\* (its canvas is drawn), "encoded" (toDataURL and the fetch of its bytes
\* are through), "embedded" (embedPng and drawImage are through).
\* The for loop reaches the statements of page p once the iterations of
\* the pages before it have run to their end.
CanBeginAnyTime(job, p) == job[p] = "todo"

CanBegin(job, p) ==
  /\ job[p] = "todo"
  /\ \A q \in 1 .. (p - 1) : job[q] \in {"skipped", "embedded"}

\* document.createElement('canvas'), getContext, and the drawing of the
\* page's strokes
ExportRasterize(p, outcome, scaleX, scaleY) ==
  /\ exp.pc = "pages"
  /\ p \in 1 .. NumPages
  /\ CanBegin(exp.job, p)
  /\ exp' =
       IF exp.finalAnnotations[p] = <<>> \/ outcome = "noContext"
         THEN [exp EXCEPT
                 !.pageNum = @ + 1,
                 !.job[p] = "skipped",
                 !.failed = IF exp.finalAnnotations[p] = <<>>
                              THEN @ ELSE @ \cup {"context"}]
         ELSE [exp EXCEPT
                 !.job[p] = "raster",
                 !.scale[p] = <<scaleX, scaleY>>]
  /\ lastEvent' = Event("exportRasterize", p)
  /\ UNCHANGED <<exportFrame, allPageAnnotations, allPageTextAnnotations>>

\* canvas.toDataURL('image/png') and await fetch(...).arrayBuffer()
ExportEncode(p, ok) ==
  /\ exp.pc = "pages"
  /\ p \in 1 .. NumPages
  /\ exp.job[p] = "raster"
  /\ exp' = IF ok
              THEN [exp EXCEPT !.job[p] = "encoded"]
              ELSE ExportThrows(exp, "encode")
  /\ lastEvent' = Event("exportEncode", p)
  /\ UNCHANGED <<exportFrame, allPageAnnotations, allPageTextAnnotations>>

\* await pdfDoc.embedPng(imageBytes) and page.drawImage; the iteration
\* ends and the canvas goes out of scope
ExportEmbed(p, ok) ==
  LET paths == exp.finalAnnotations[p]
  IN /\ exp.pc = "pages"
     /\ p \in 1 .. NumPages
     /\ exp.job[p] = "encoded"
     /\ exp' =
          IF ok
            THEN [exp EXCEPT
                    !.pageNum = @ + 1,
                    !.job[p] = "embedded",
                    !.layers[p] =
                      [ink |-> [k \in 1 .. Len(paths) |->
                                  ExportPath(paths[k], exp.scale[p][1],
                                             exp.scale[p][2])],
                       strokes |-> [k \in 1 .. Len(paths) |-> paths[k].id],
                       texts |-> <<>>],
                    !.embedded = @ \cup {p}]
            ELSE ExportThrows(exp, "embed")
     /\ lastEvent' = Event("exportEmbed", p)
     /\ UNCHANGED <<exportFrame, allPageAnnotations, allPageTextAnnotations>>

\* pdfDoc.save() and new Blob; back in handleSavePDF downloadPDF runs and
\* saveAnnotatedFile starts
ExportSave(ok) ==
  /\ exp.pc = "pages"
  /\ exp.pageNum = NumPages
  /\ exp' = IF ok
              THEN [exp EXCEPT !.pc = "store", !.blob = TRUE,
                               !.downloaded = TRUE]
              ELSE ExportThrows(exp, "serialize")
  /\ lastEvent' = Event("exportSave", 0)
  /\ UNCHANGED <<exportFrame, allPageAnnotations, allPageTextAnnotations>>

\* what handleSavePDF tells the user once the file is downloaded,
\* whatever saveAnnotatedFile did
AlertAfterStorageRethrown(outcome) ==
  IF outcome = "throws" THEN "error" ELSE "success"

AlertAfterStorage(outcome) == "success"

\* saveAnnotatedFile: stores, returns without storing a blob over
\* MAX_FILE_SIZE, or throws; handleSavePDF swallows the throw, then
\* alert('PDF saved successfully!') and setIsSaving(false)
StoreAnnotatedFile(outcome) ==
  /\ exp.pc = "store"
  /\ exp' = [exp EXCEPT
               !.pc = "done",
               !.stored = (outcome = "ok"),
               !.storageFailed = (outcome = "throws"),
               !.alert = AlertAfterStorage(outcome),
               !.isSaving = FALSE]
  /\ lastEvent' = Event("storeFile", 0)
  /\ UNCHANGED <<exportFrame, allPageAnnotations, allPageTextAnnotations>>

\* -------------------------------------------------------- specifications
\* One page in view: pointer gestures of a device without pressure with
\* every tool, clear, undo, redo.
Next ==
  /\ \/ \E q \in Pos : HandlePointerDown(q, 0)
     \/ \E q \in Pos : HandlePointerMove(q, 0)
     \/ HandlePointerUp
     \/ \E t \in Tools : SetDrawingTool(t)
     \/ ClearAll
     \/ Undo
     \/ Redo
  /\ UNCHANGED <<trial, sideVars>>

Spec == Init /\ [][Next]_vars

\* Taps only (pointer-down then pointer-up) with the pen and the eraser,
\* clear, undo and redo: the history list and its cursor.
Tap ==
  \/ \E q \in Pos, raw \in Pressures : HandlePointerDown(q, raw)
  \/ HandlePointerUp
  \/ \E t \in {"pen", "eraser"} : SetDrawingTool(t)

NextHistory ==
  /\ \/ Tap
     \/ ClearAll
     \/ Undo
     \/ Redo
  /\ UNCHANGED <<trial, sideVars>>

SpecHistory == Init /\ [][NextHistory]_vars

\* The round trip of the undo/redo contract: N commits, then N undos, then
\* N redos.  trial counts them and keeps the stroke list of the Nth commit.
TrialCommit ==
  /\ trial.undos = 0
  /\ Tap \/ ClearAll
  /\ trial' = [trial EXCEPT
                 !.commits = IF history' # history THEN @ + 1 ELSE @,
                 !.committed = drawingPaths']

TrialUndo ==
  /\ trial.redos = 0
  /\ trial.undos < trial.commits
  /\ Undo
  /\ trial' = [trial EXCEPT !.undos = @ + 1]

TrialRedo ==
  /\ trial.undos = trial.commits
  /\ trial.redos < trial.commits
  /\ Redo
  /\ trial' = [trial EXCEPT !.redos = @ + 1]

NextUndoRedo ==
  /\ \/ TrialCommit
     \/ TrialUndo
     \/ TrialRedo
  /\ UNCHANGED sideVars

SpecUndoRedo == Init /\ [][NextUndoRedo]_vars

\* Two pages: taps with the pen and text annotations at one position,
\* every way of changing the page, and loading a file.
PagePos == {<<0, 0>>}

NextPages ==
  /\ \/ \E q \in PagePos : HandlePointerDown(q, 0) /\ UNCHANGED fileVars
     \/ HandlePointerUp /\ UNCHANGED fileVars
     \/ \E t \in {"pen", "text"} : SetDrawingTool(t) /\ UNCHANGED fileVars
     \/ GoToPreviousPage /\ UNCHANGED fileVars
     \/ GoToNextPage /\ UNCHANGED fileVars
     \/ \E v \in PageInputs : PageInputChange(v) /\ UNCHANGED fileVars
     \/ PageInputSubmit /\ UNCHANGED fileVars
     \/ PageInputBlur /\ UNCHANGED fileVars
     \/ FileSelect
     \/ \E q \in PagePos : TextAdd(q, "a") /\ UNCHANGED fileVars
     \/ \E i \in 1 .. MaxTexts : TextDelete(i) /\ UNCHANGED fileVars
     \/ \E i \in 1 .. MaxTexts : TextUpdate(i, "b") /\ UNCHANGED fileVars
  /\ UNCHANGED <<trial, widgetVars>>

SpecPages == Init /\ [][NextPages]_vars

\* Every edit of the page in view (pen taps, eraser taps, clear, undo, redo,
\* text add, move, edit, delete) between switches to the previous and the
\* next page.
NextEdits ==
  /\ \/ \E q \in PagePos : HandlePointerDown(q, 0)
     \/ HandlePointerUp
     \/ \E t \in {"pen", "eraser", "text"} : SetDrawingTool(t)
     \/ ClearAll
     \/ Undo
     \/ Redo
     \/ \E q \in PagePos : TextAdd(q, "a")
     \/ \E i \in 1 .. MaxTexts : TextMove(i, <<6, 0>>)
     \/ \E i \in 1 .. MaxTexts : TextUpdate(i, "b")
     \/ \E i \in 1 .. MaxTexts : TextDelete(i)
     \/ GoToPreviousPage
     \/ GoToNextPage
  /\ UNCHANGED <<trial, sideVars>>

SpecEdits == Init /\ [][NextEdits]_vars

\* Export of a document annotated on every page.  The start state is the
\* one reached by drawing at most one stroke per page with any pen style
\* and opacity, adding text annotations, and navigating back to page 1:
\* the per-page maps hold every page, the history was reset by the last
\* page switch.
Opacities == {5, 10}

ScaleFactors == {<<1, 1>>, <<2, 1>>}

ExportOutcomes == {"ok", "noContext", "encode", "embed"}

StoreOutcomes == {"ok", "tooLarge", "throws"}

StrokeOn(page, style, n, opacity) ==
  [id |-> page,
   points |-> [k \in 1 .. n |-> IF k % 2 = 1 THEN <<0, 0>> ELSE <<6, 0>>],
   color |-> "#000000", size |-> 2, tool |-> "pen", penStyle |-> style,
   opacity |-> opacity,
   pressure |-> [k \in 1 .. n |-> PressureOf(0)]]

StrokeLists(page) ==
  {<<>>} \cup
  {<<StrokeOn(page, style, n, o)>> :
     style \in PenStyles, n \in 1 .. (MaxPts + 1), o \in Opacities}

TextLists(page) ==
  {<<>>, <<[id |-> page, text |-> "a", x |-> 0, y |-> 0]>>}

AllStrokeLists == UNION {StrokeLists(p) : p \in 1 .. NumPages}

AllTextLists == UNION {TextLists(p) : p \in 1 .. NumPages}

\* the number of non-empty lists in a per-page map
Filled(store) == Cardinality({p \in 1 .. NumPages : store[p] # <<>>})

InitExport ==
  /\ currentPage = 1
  /\ pageInput = "1"
  /\ drawingTool = "pen"
  /\ penSize = 2
  /\ allPageAnnotations \in [1 .. NumPages -> AllStrokeLists]
  /\ \A p \in 1 .. NumPages : allPageAnnotations[p] \in StrokeLists(p)
  /\ Filled(allPageAnnotations) <= MaxStrokes
  /\ allPageTextAnnotations \in [1 .. NumPages -> AllTextLists]
  /\ \A p \in 1 .. NumPages : allPageTextAnnotations[p] \in TextLists(p)
  /\ Filled(allPageTextAnnotations) <= MaxTexts
  /\ drawingPaths = allPageAnnotations[1]
  /\ textAnnotations = allPageTextAnnotations[1]
  /\ history = <<drawingPaths>>
  /\ historyIndex = 0
  /\ isDrawing = FALSE
  /\ currentPath = NoPath
  /\ isErasing = FALSE
  /\ isPanning = FALSE
  /\ nextId = Filled(allPageAnnotations)
  /\ nextTextId = Filled(allPageTextAnnotations)
  /\ shapeRecognitionEnabled = TRUE
  /\ heldTool = "none"
  /\ lastEvent = [type |-> "previousPage", arg |-> 0, idx |-> 0, len |-> 1]
  /\ exp = NoExport
  /\ trial = NoTrial
  /\ SideInit

NextExport ==
  /\ \/ HandleSavePDF
     \/ \E ok \in BOOLEAN : ExportLoad(ok)
     \/ \E outcome \in ExportOutcomes, f \in ScaleFactors :
          ExportPage(outcome, f[1], f[2])
     \/ \E ok \in BOOLEAN : ExportSave(ok)
     \/ \E outcome \in StoreOutcomes : StoreAnnotatedFile(outcome)
  /\ UNCHANGED <<trial, sideVars>>

SpecExport == InitExport /\ [][NextExport]_vars

\* The same export, every await of the page loop a step of its own.
NextExportSteps ==
  /\ \/ HandleSavePDF
     \/ ExportLoad(TRUE)
     \/ \E p \in 1 .. NumPages, outcome \in {"ok", "noContext"} :
          ExportRasterize(p, outcome, 1, 1)
     \/ \E p \in 1 .. NumPages, ok \in BOOLEAN : ExportEncode(p, ok)
     \/ \E p \in 1 .. NumPages, ok \in BOOLEAN : ExportEmbed(p, ok)
     \/ \E ok \in BOOLEAN : ExportSave(ok)
     \/ StoreAnnotatedFile("ok")
  /\ UNCHANGED <<trial, sideVars>>

SpecExportSteps == InitExport /\ [][NextExportSteps]_vars

\* A pen gesture about to end: the draft holds one of the point lists below
\* (consecutive points are at least one unit apart, so continueDrawing
\* retained every one of them), shape recognition is on or off.
\* The point at distance k along the perimeter of the rectangle with
\* corners (10, 10) and (10 + w, 10 + h), walking from (10, 10) along x.
PerimeterPoint(w, h, k) ==
  IF k <= w
    THEN <<10 + k, 10>>
    ELSE IF k <= w + h
      THEN <<10 + w, 10 + k - w>>
      ELSE IF k <= 2 * w + h
        THEN <<10 + w - (k - w - h), 10 + h>>
        ELSE <<10, 10 + h - (k - 2 * w - h)>>

\* one closed walk around the rectangle in unit steps, from distance o
RectangleWalk(w, h, o) ==
  [i \in 1 .. (2 * (w + h) + 1) |->
     PerimeterPoint(w, h, (o + i - 1) % (2 * (w + h)))]

RectangleWalks ==
  {RectangleWalk(r[1], r[2], o) :
     r \in {<<8, 4>>, <<6, 6>>, <<10, 5>>}, o \in 0 .. 29}

\* n points in steps of d along x
StraightLine(n, d) == [i \in 1 .. n |-> <<10 + (i - 1) * d, 10>>]

StraightLines == {StraightLine(n, d) : n \in 2 .. 9, d \in {1, 4}}

\* a line of 7 points followed by a head of 3 points that starts next to
\* the line's end and runs back from it
ArrowStroke(d, hook) ==
  StraightLine(7, d)
  \o <<<<10 + 6 * d - 1, 11>>, <<10 + 6 * d - 5, 14>>,
       IF hook THEN <<10 + 6 * d - 1, 14>> ELSE <<10 + 6 * d - 9, 18>>>>

ArrowStrokes == {ArrowStroke(d, hook) : d \in {2, 4}, hook \in BOOLEAN}

\* twelve points at distance 5 from (20, 20), closed
RoundStroke ==
  <<<<25, 20>>, <<24, 23>>, <<23, 24>>, <<20, 25>>, <<17, 24>>, <<16, 23>>,
    <<15, 20>>, <<16, 17>>, <<17, 16>>, <<20, 15>>, <<23, 16>>, <<24, 17>>,
    <<25, 20>>>>

\* back and forth, open
ZigZag(n) ==
  [i \in 1 .. n |-> <<10 + (i - 1), IF i % 2 = 1 THEN 10 ELSE 13>>]

ShapeDrafts ==
  RectangleWalks \cup StraightLines \cup ArrowStrokes \cup {RoundStroke}
  \cup {ZigZag(n) : n \in 4 .. 10}

InitShapes ==
  /\ currentPage = 1
  /\ pageInput = "1"
  /\ drawingTool = "pen"
  /\ penSize = 2
  /\ drawingPaths = <<>>
  /\ history = << <<>> >>
  /\ historyIndex = 0
  /\ textAnnotations = <<>>
  /\ allPageAnnotations = [p \in 1 .. NumPages |-> <<>>]
  /\ allPageTextAnnotations = [p \in 1 .. NumPages |-> <<>>]
  /\ isDrawing = TRUE
  /\ \E points \in ShapeDrafts :
       currentPath =
         [id |-> 1, points |-> points, color |-> "#000000",
          size |-> penSize, tool |-> "pen", penStyle |-> "writing",
          opacity |-> 10,
          pressure |-> [k \in 1 .. Len(points) |-> PressureOf(0)]]
  /\ isErasing = FALSE
  /\ isPanning = FALSE
  /\ nextId = 1
  /\ nextTextId = 0
  /\ shapeRecognitionEnabled \in BOOLEAN
  /\ heldTool = "pen"
  /\ lastEvent = [type |-> "pointerMove", arg |-> 0, idx |-> 0, len |-> 1]
  /\ exp = NoExport
  /\ trial = NoTrial
  /\ SideInit

NextShapes ==
  \/ /\ HandlePointerUp
     /\ trial' = [trial EXCEPT !.draft = currentPath]
     /\ UNCHANGED sideVars
  \/ /\ ToggleShapeRecognition
     /\ UNCHANGED <<trial, sideVars>>

SpecShapes == InitShapes /\ [][NextShapes]_vars

\* One pen stroke in the making, with any pen style and opacity: the
\* state after the pointer-down, then samples of a device with or without
\* pressure, then the pointer-up.
InitInk ==
  /\ currentPage = 1
  /\ pageInput = "1"
  /\ drawingTool = "pen"
  /\ penSize = 2
  /\ drawingPaths = <<>>
  /\ history = << <<>> >>
  /\ historyIndex = 0
  /\ textAnnotations = <<>>
  /\ allPageAnnotations = [p \in 1 .. NumPages |-> <<>>]
  /\ allPageTextAnnotations = [p \in 1 .. NumPages |-> <<>>]
  /\ isDrawing = TRUE
  /\ \E style \in PenStyles, opacity \in Opacities, raw \in Pressures :
       currentPath =
         [id |-> 1, points |-> << <<0, 0>> >>, color |-> "#000000",
          size |-> penSize, tool |-> "pen", penStyle |-> style,
          opacity |-> opacity, pressure |-> <<PressureOf(raw)>>]
  /\ isErasing = FALSE
  /\ isPanning = FALSE
  /\ nextId = 1
  /\ nextTextId = 0
  /\ shapeRecognitionEnabled = TRUE
  /\ heldTool = "pen"
  /\ lastEvent = [type |-> "pointerDown", arg |-> <<0, 0>>, idx |-> 0,
                  len |-> 1]
  /\ exp = NoExport
  /\ trial = NoTrial
  /\ SideInit

\* handlePointerMove with the pen in hand, on a draft of at most InkPts
\* points
PenMove(q, raw) ==
  /\ CanvasTool = "pen"
  /\ currentPath # NoPath => Len(currentPath.points) <= InkPts
  /\ ContinueDrawing(q, raw)
  /\ UNCHANGED heldTool
  /\ lastEvent' = Event("pointerMove", q)
  /\ UNCHANGED <<appFrame, exp>>

NextInk ==
  /\ \/ \E q \in Pos, raw \in Pressures : PenMove(q, raw)
     \/ HandlePointerUp
  /\ UNCHANGED <<trial, sideVars>>

SpecInk == InitInk /\ [][NextInk]_vars

\* Zooming while annotating one page: pen taps, undo and a text label,
\* each pointer event at the display offset that lies over one of two
\* positions of the page at the scale in effect.
OptimalScales == {3, 5, 9, 22}

OffsetOf(q, scale) == <<q[1] * scale, q[2] * scale>>

NextZoom ==
  \/ /\ \/ ZoomIn
        \/ ZoomOut
        \/ \E o \in OptimalScales, m \in {20, 40} : AutoFit(o, m)
        \/ HandlePointerUp /\ UNCHANGED view
        \/ \E t \in {"pen", "text"} : SetDrawingTool(t) /\ UNCHANGED view
        \/ Undo /\ UNCHANGED view
     /\ trial' = NoTrial
     /\ UNCHANGED <<widgetVars, recentFiles>>
  \/ /\ \E q \in {<<6, 0>>, <<0, 8>>} :
          /\ \/ HandlePointerDown(
                  GetCanvasCoordinates(OffsetOf(q, view.scale), view.scale),
                  0)
             \/ TextAdd(
                  GetCanvasCoordinates(OffsetOf(q, view.scale), view.scale),
                  "a")
          /\ trial' = [trial EXCEPT !.offset = OffsetOf(q, view.scale)]
     /\ UNCHANGED <<sideVars>>

SpecZoom == Init /\ [][NextZoom]_vars
\* hand on both: pointer gestures on the canvas, mouse gestures, tool
\* buttons, undo, redo and clear on the pad.
NextSketch ==
  /\ \/ \E q \in PagePos : HandlePointerDown(q, 0) /\ UNCHANGED sideVars
     \/ \E q \in {<<0, 0>>, <<6, 0>>} :
          HandlePointerMove(q, 0) /\ UNCHANGED sideVars
     \/ HandlePointerUp /\ UNCHANGED sideVars
     \/ \E t \in {"pen", "pan", "eraser"} : PadSetTool(t)
     \/ \E pos \in PagePos : PadStartDrawing(pos)
     \/ \E pos \in {<<0, 0>>, <<6, 0>>} : PadDraw(pos)
     \/ PadStopDrawing
     \/ PadUndo
     \/ PadRedo
     \/ PadClearCanvas
  /\ UNCHANGED trial

SpecSketch == Init /\ [][NextSketch]_vars

\* Text labels on one page: placing, editing, deleting and dragging them.
\* The pointer can leave the page while a label is dragged.
DragPos == {<<0, 0>>, <<3, 4>>, <<9, 2>>, <<-1, 9>>}

NextDrag ==
  /\ \/ \E t \in {"pen", "text"} : SetDrawingTool(t) /\ UNCHANGED sideVars
     \/ \E q \in PagePos : TextAdd(q, "a") /\ UNCHANGED sideVars
     \/ \E i \in 1 .. MaxTexts : TextUpdate(i, "b") /\ UNCHANGED sideVars
     \/ \E i \in 1 .. MaxTexts : TextDelete(i) /\ UNCHANGED sideVars
     \/ \E i \in 1 .. MaxTexts, button \in {0, 2} : TextMouseDown(i, button)
     \/ \E q \in DragPos : TextMouseMove(q)
     \/ TextMouseUp
  /\ UNCHANGED trial

SpecDrag == Init /\ [][NextDrag]_vars

\* The sketch gallery: importing files of every shape, deleting sketches.
\* A file is a text that does not parse, or parses to null, to a number,
\* or to an object whose paths property is missing or holds any JSON
\* value.
PathsValues ==
  {Undefined,
   Json("null", 0, "", <<>>),
   Json("number", 0, "", <<>>),
   Json("number", 5, "", <<>>),
   Json("string", 0, "", <<>>),
   Json("string", 0, "s", <<>>),
   Json("object", 0, "", <<>>),
   Json("array", 0, "", <<>>),
   Json("array", 0, "", <<1>>)}

NameValues ==
  {Undefined, Json("string", 0, "", <<>>), Json("string", 0, "n", <<>>)}

SketchFiles ==
  {[parse |-> p, name |-> Undefined, paths |-> Undefined] :
     p \in {"throws", "null", "number"}}
  \cup
  {[parse |-> "object", name |-> n, paths |-> v] :
     n \in NameValues, v \in PathsValues}

NextImport ==
  /\ \/ \E file \in SketchFiles, dbOk \in BOOLEAN :
          ImportSketchFromJSON(file, dbOk)
     \/ \E i \in 1 .. MaxSketches, dbOk \in BOOLEAN : DeleteSketch(i, dbOk)
  /\ UNCHANGED trial

SpecImport == Init /\ [][NextImport]_vars

\* Annotating, exporting and opening files while the persistence layer
\* fails: pen taps and a text label on page 1, the export with every
\* outcome of the store in the saved-file history, opening a file, and
\* the recent-files tracking settling with every outcome.
RecentOutcomes == {"ok", "quota", "data"}

NextPersist ==
  /\ \/ \E q \in PagePos : HandlePointerDown(q, 0) /\ UNCHANGED fileVars
     \/ HandlePointerUp /\ UNCHANGED fileVars
     \/ \E t \in {"pen", "text"} : SetDrawingTool(t) /\ UNCHANGED fileVars
     \/ \E q \in PagePos : TextAdd(q, "a") /\ UNCHANGED fileVars
     \/ Undo /\ UNCHANGED fileVars
     \/ GoToNextPage /\ UNCHANGED fileVars
     \/ FileSelect
     \/ \E outcome \in RecentOutcomes : RecentFilesSettled(outcome)
     \/ exp.pc = "idle" /\ HandleSavePDF /\ UNCHANGED fileVars
     \/ ExportLoad(TRUE) /\ UNCHANGED fileVars
     \/ ExportPage("ok", 1, 1) /\ UNCHANGED fileVars
     \/ ExportSave(TRUE) /\ UNCHANGED fileVars
     \/ \E outcome \in StoreOutcomes :
          StoreAnnotatedFile(outcome) /\ UNCHANGED fileVars
  /\ UNCHANGED <<trial, widgetVars>>

SpecPersist == Init /\ [][NextPersist]_vars

\* ---------------------------------------------------------------- claims
\* C1: once an eraser sample (pointer-down, or pointer-move while the
\* eraser is held) at position q has been processed, no stroke with a point
\* within penSize*3 of q is left in the page's stroke list.
C1_SampleErasesEveryHitStroke ==
  (/\ lastEvent.type \in {"pointerDown", "pointerMove"}
   /\ CanvasTool = "eraser"
   /\ isErasing)
  => \A i \in 1 .. Len(drawingPaths) :
       ~EraserHit(drawingPaths[i], lastEvent.arg, penSize)

NavEvents == {"previousPage", "nextPage", "pageInputEnter", "pageInputBlur"}

\* C2: every navigation (previous, next, go-to-page by Enter or by blur,
\* also to the page already shown) displays on the page it arrives at
\* exactly the strokes and texts that page held before, and keeps every
\* other page's strokes and texts.
C2_NavigationKeepsAnnotations ==
  [][lastEvent'.type \in NavEvents =>
       /\ drawingPaths' = PageStrokes(currentPage')
       /\ textAnnotations' = PageTexts(currentPage')
       /\ \A p \in (1 .. NumPages) \ {currentPage'} :
            /\ allPageAnnotations'[p] = PageStrokes(p)
            /\ allPageTextAnnotations'[p] = PageTexts(p)]_vars

\* C3: after N commits on an empty page, N undos leave the stroke list
\* empty, and N redos after that leave it as it was after the Nth commit.
C3_UndoRedoRoundTrip ==
  /\ (trial.commits > 0 /\ trial.undos = trial.commits /\ trial.redos = 0)
       => drawingPaths = <<>>
  /\ (trial.commits > 0 /\ trial.redos = trial.commits)
       => drawingPaths = trial.committed

C3_Witness ==
  /\ trial.commits = MaxHistory - 1
  /\ trial.redos = trial.commits
  /\ drawingPaths # <<>>

CommitEvents == {"pointerDown", "pointerUp", "clearAll"}

\* C4: a commit made while the cursor is not on the last snapshot keeps
\* the snapshots up to the cursor, drops every later one, appends the new
\* one, and leaves the cursor on it, so that redo is unavailable.
C4_CommitAfterUndoTruncates ==
  [][(/\ lastEvent'.type \in CommitEvents
      /\ history' # history
      /\ historyIndex < Len(history) - 1)
     => /\ Len(history') = historyIndex + 2
        /\ \A i \in 1 .. (historyIndex + 1) : history'[i] = history[i]
        /\ history'[Len(history')] = drawingPaths'
        /\ historyIndex' = Len(history') - 1
        /\ RedoIndex(historyIndex', Len(history')) = historyIndex']_vars

\* a commit that found two snapshots after the cursor and left one list of
\* two snapshots
C4_Witness ==
  /\ lastEvent.type \in CommitEvents
  /\ lastEvent.idx = 0
  /\ lastEvent.len = 3
  /\ Len(history) = 2
  /\ historyIndex = 1

\* C5: undo at cursor 0 and redo at the last snapshot change nothing;
\* anywhere else they move the cursor by exactly one, show the snapshot
\* under the cursor and leave the snapshot list as it was.
C5_UndoRedoMoveCursorOnly ==
  [][/\ lastEvent'.type = "undo" =>
          /\ history' = history
          /\ IF historyIndex = 0
               THEN historyIndex' = 0 /\ drawingPaths' = drawingPaths
               ELSE /\ historyIndex' = historyIndex - 1
                    /\ drawingPaths' = history[historyIndex' + 1]
     /\ lastEvent'.type = "redo" =>
          /\ history' = history
          /\ IF historyIndex = Len(history) - 1
               THEN /\ historyIndex' = historyIndex
                    /\ drawingPaths' = drawingPaths
               ELSE /\ historyIndex' = historyIndex + 1
                    /\ drawingPaths' = history[historyIndex' + 1]]_vars

\* an undo that found the cursor at 0 with strokes on the page
C5_Witness ==
  /\ lastEvent.type = "undo"
  /\ lastEvent.idx = 0
  /\ lastEvent.len > 1
  /\ historyIndex = 0

\* C6: every pointer-up, pointer-leave or pointer-cancel closes the open
\* draft, so no draft is open when the next one begins.
C6_PointerUpClosesDraft ==
  lastEvent.type = "pointerUp" => (~isDrawing /\ currentPath = NoPath)

\* C7: a pointer-move removes strokes only while the pointer is held down
\* in a gesture that began with the eraser tool.
C7_EraseOnlyWhileEraserHeld ==
  [][(lastEvent'.type = "pointerMove" /\ heldTool # "eraser")
     => drawingPaths' = drawingPaths]_vars

\* C8: when any step of an export failed (no raster surface for a page,
\* rasterizing, encoding, embedding, serializing), the finished export has
\* produced no document (none returned, downloaded or stored), has reported
\* an error, and has left every page's strokes, texts and the history as
\* they were.
C8_FailedExportYieldsNothing ==
  (exp.pc = "done" /\ exp.failed # {})
  => /\ ~exp.blob
     /\ ~exp.downloaded
     /\ ~exp.stored
     /\ exp.alert = "error"
     /\ Annotations = exp.before

\* C9: after an export in which no step failed, every page that has a
\* stroke or a text annotation has a layer in the document, and the layer
\* holds all of the page's strokes and all of its text annotations.
C9_EveryAnnotatedPageGetsItsLayer ==
  (exp.pc = "done" /\ exp.alert = "success" /\ exp.failed = {})
  => \A p \in 1 .. NumPages :
       (PageStrokes(p) # <<>> \/ PageTexts(p) # <<>>)
       => /\ p \in exp.embedded
          /\ exp.layers[p].strokes =
               [k \in 1 .. Len(PageStrokes(p)) |-> PageStrokes(p)[k].id]
          /\ exp.layers[p].texts =
               [k \in 1 .. Len(PageTexts(p)) |-> PageTexts(p)[k].id]

\* the on-screen bulk redraw applied to a stroke whose points are
\* multiplied by (scaleX, scaleY)
ExportPathAsOnScreen(path, scaleX, scaleY) ==
  DrawPath([path EXCEPT
              !.points = ScalePoints(path.points, scaleX, scaleY),
              !.size = ScaledSize(path.size, scaleX, scaleY)])

\* C10: every stroke of every exported layer, whatever its pen style, is
\* drawn by the export exactly as the on-screen bulk redraw draws that
\* stroke with its points multiplied by (scaleX, scaleY).
C10_ExportDrawsAsOnScreen ==
  \A p \in exp.embedded :
    \A k \in 1 .. Len(exp.layers[p].ink) :
      exp.layers[p].ink[k] =
        ExportPathAsOnScreen(exp.finalAnnotations[p][k], exp.scale[p][1],
                             exp.scale[p][2])

\* a navigation handler whose page switch runs: previous, next, or a page
\* input committed while it holds a valid page number
Switches ==
  \/ lastEvent'.type \in {"previousPage", "nextPage"}
  \/ /\ lastEvent'.type \in {"pageInputEnter", "pageInputBlur"}
     /\ ValidPage(ParseInt(pageInput))

\* C11: right after a switch to a page the history is exactly one snapshot,
\* the stroke list the per-page map held for that page (which is the list
\* now shown, and for a switch to another page still the stored list), the
\* cursor is 0, and neither undo nor redo is available.
C11_SwitchStartsFreshHistory ==
  [][Switches =>
       /\ history' = <<allPageAnnotations[currentPage']>>
       /\ history' = <<drawingPaths'>>
       /\ currentPage' # currentPage
            => history' = <<allPageAnnotations'[currentPage']>>
       /\ historyIndex' = 0
       /\ ~CanUndo(historyIndex')
       /\ ~CanRedo(historyIndex', Len(history'))]_vars

\* a page with a stroke was left and entered again: its one-snapshot
\* history holds that stroke
C11_Witness ==
  /\ lastEvent.type \in {"previousPage", "nextPage"}
  /\ drawingPaths # <<>>
  /\ history = <<drawingPaths>>
  /\ allPageAnnotations[currentPage] = drawingPaths

\* the handlers that edit the page in view
EditEvents ==
  {"pointerDown", "pointerMove", "pointerUp", "clearAll", "undo", "redo",
   "textAdd", "textMove", "textUpdate", "textDelete"}

\* C12: no edit of the page in view (stroke added, erased, clear all, undo,
\* redo, text added, moved, edited, deleted), and no saving of that page
\* when it is left, changes the stored strokes or the stored text
\* annotations of any other page.
C12_OtherPagesUntouched ==
  [][lastEvent'.type \in EditEvents \cup {"previousPage", "nextPage"} =>
       \A p \in (1 .. NumPages) \ {currentPage} :
         /\ allPageAnnotations'[p] = allPageAnnotations[p]
         /\ allPageTextAnnotations'[p] = allPageTextAnnotations[p]]_vars

\* an undo on one page while another page has a stored stroke and a stored
\* text annotation
C12_Witness ==
  /\ lastEvent.type = "undo"
  /\ lastEvent.idx > 0
  /\ \E p \in (1 .. NumPages) \ {currentPage} :
       /\ allPageAnnotations[p] # <<>>
       /\ allPageTextAnnotations[p] # <<>>

\* the stroke the last pointer-up committed, and the draft it was handed
Committed == drawingPaths[Len(drawingPaths)]

JustCommitted ==
  /\ lastEvent.type = "pointerUp"
  /\ trial.draft # NoPath
  /\ drawingPaths # <<>>

\* at least 8 points, the first 70% of them a line with confidence >= 0.8,
\* the rest beginning within a tenth of that line's length of its end
ArrowShaped(points) ==
  LET e == (7 * Len(points)) \div 10
      linePart == SubSeq(points, 1, e)
  IN /\ Len(points) >= 8
     /\ RecognizeLine(linePart).confidence >= 800
     /\ 10 * Distance(linePart[e], points[e + 1]) <= PathLength(linePart)

\* C13: with shape recognition enabled, a pen stroke of at least 8 points
\* that is accepted neither as a line nor as a circle nor as a rectangle,
\* and is arrow-shaped, is committed as the 5-point arrow: start, end, one
\* head point, end, the other head point.
C13_ArrowCommitted ==
  (/\ JustCommitted
   /\ shapeRecognitionEnabled
   /\ trial.draft.tool = "pen"
   /\ ~(RecognizeLine(trial.draft.points).confidence > 800)
   /\ ~(RecognizeCircle(trial.draft.points).confidence > 700)
   /\ ~(RecognizeRectangle(trial.draft.points).confidence > 700)
   /\ ArrowShaped(trial.draft.points))
  => /\ Len(Committed.points) = 5
     /\ Committed.points = RecognizeArrow(trial.draft.points).points

\* the result of the first rule, in the order line, circle, rectangle,
\* arrow, whose confidence exceeds its gate
FirstOverGate(points) ==
  LET line == RecognizeLine(points)
      circle == RecognizeCircle(points)
      rectangle == RecognizeRectangle(points)
      arrow == RecognizeArrow(points)
  IN CASE line.confidence > 800 -> line
       [] line.confidence <= 800 /\ circle.confidence > 700 -> circle
       [] /\ line.confidence <= 800
          /\ circle.confidence <= 700
          /\ rectangle.confidence > 700 -> rectangle
       [] /\ line.confidence <= 800
          /\ circle.confidence <= 700
          /\ rectangle.confidence <= 700
          /\ arrow.confidence > 750 -> arrow
       [] OTHER -> NoShape

\* C14: for a stroke handed to the classifier (at least 5 points), the
\* classification is the result of the first of line, circle, rectangle,
\* arrow whose confidence exceeds its gate of 0.8, 0.7, 0.7, 0.75, and none
\* if no rule exceeds its gate; the committed stroke carries that result.
C14_FirstRuleOverItsGateWins ==
  (/\ JustCommitted
   /\ shapeRecognitionEnabled
   /\ Len(trial.draft.points) >= 5)
  => /\ RecognizeShape(trial.draft.points) = FirstOverGate(trial.draft.points)
     /\ Committed.points =
          IF FirstOverGate(trial.draft.points) = NoShape
            THEN trial.draft.points
            ELSE FirstOverGate(trial.draft.points).points

\* a committed walk around a square: the circle rule and the rectangle rule
\* both exceed their gates, and the stroke is committed as the circle
C14_Witness ==
  /\ JustCommitted
  /\ shapeRecognitionEnabled
  /\ RecognizeCircle(trial.draft.points).confidence > 700
  /\ RecognizeRectangle(trial.draft.points).confidence > 700
  /\ Len(Committed.points) = 65

\* C15: the committed stroke differs from the draft only if recognition is
\* enabled, the draft is a pen stroke of at least 5 points and the
\* classifier returns a shape; then its points are the shape's points and
\* its pressure is dropped, and in every case id, colour, size, style,
\* opacity and tool are the draft's.
C15_OnlyRecognizedStrokesChange ==
  JustCommitted
  => /\ Committed # trial.draft
          => /\ shapeRecognitionEnabled
             /\ trial.draft.tool = "pen"
             /\ Len(trial.draft.points) >= 5
             /\ RecognizeShape(trial.draft.points) # NoShape
             /\ Committed.points = RecognizeShape(trial.draft.points).points
             /\ Committed.pressure = <<>>
     /\ Committed.id = trial.draft.id
     /\ Committed.color = trial.draft.color
     /\ Committed.size = trial.draft.size
     /\ Committed.penStyle = trial.draft.penStyle
     /\ Committed.opacity = trial.draft.opacity
     /\ Committed.tool = trial.draft.tool

\* a draft committed as a recognized shape
C15_Witness ==
  /\ JustCommitted
  /\ Committed # trial.draft
  /\ Committed.points = <<trial.draft.points[1],
                           trial.draft.points[Len(trial.draft.points)]>>

\* the closed 5-point bounding box of a point list
BoundingBox(points) ==
  LET xs == {points[k][1] : k \in 1 .. Len(points)}
      ys == {points[k][2] : k \in 1 .. Len(points)}
  IN <<<<MinOf(xs), MinOf(ys)>>, <<MaxOf(xs), MinOf(ys)>>,
       <<MaxOf(xs), MaxOf(ys)>>, <<MinOf(xs), MaxOf(ys)>>,
       <<MinOf(xs), MinOf(ys)>>>>

\* C16: for every closed walk of at least 15 points once around an
\* axis-aligned rectangle, wherever it starts, the rectangle rule finds
\* exactly 4 corners and returns the closed 5-point bounding box; for any
\* path whose corner count is not 4 it returns no match.
C16_RectangleWalkRecognized ==
  currentPath # NoPath
  => LET points == currentPath.points
         corners == Corners(points, PathLength(points), 3, <<points[1]>>)
     IN /\ (points \in RectangleWalks /\ Len(points) >= 15)
             => /\ Len(corners) = 4
                /\ RecognizeRectangle(points).type = "rectangle"
                /\ RecognizeRectangle(points).points = BoundingBox(points)
        /\ Len(corners) # 4 => RecognizeRectangle(points) = NoShape

\* C17: a pen gesture that is a pointer-down followed by a pointer-up, with
\* no point retained in between, commits exactly one stroke of exactly one
\* point and pushes exactly one history snapshot, on the PDF annotation
\* canvas and on the sketch pad alike.
C17_TapCommitsOneDot ==
  [][/\ ( /\ lastEvent'.type = "pointerUp"
          /\ isDrawing
          /\ currentPath # NoPath
          /\ currentPath.tool = "pen"
          /\ Len(currentPath.points) = 1 )
        => /\ drawingPaths' = Append(drawingPaths, currentPath)
           /\ history' = Append(SubSeq(history, 1, historyIndex + 1),
                                drawingPaths')
           /\ historyIndex' = historyIndex + 1
     /\ ( /\ pad'.last = "stopDrawing"
          /\ pad.isDrawing
          /\ pad.currentPath # NoPath
          /\ pad.currentPath.tool = "pen"
          /\ Len(pad.currentPath.points) = 1 )
        => /\ pad'.drawingPaths = Append(pad.drawingPaths, pad.currentPath)
           /\ pad'.history =
                Append(SubSeq(pad.history, 1, pad.historyIndex + 1),
                       pad'.drawingPaths)
           /\ pad'.historyIndex = pad.historyIndex + 1
    ]_vars

\* C18: after a mouse-down on a text annotation, every mouse-move that
\* arrives before the mouse-up sets that annotation's (x, y) to the pointer
\* position in document units, clamped to the page, and changes no other
\* annotation.
C18_DragMovesTheLabel ==
  [][( /\ lastEvent'.type = "textMouseMove"
       /\ textDrag.draggedAnnotation # 0 )
     => textAnnotations' =
          [k \in 1 .. Len(textAnnotations) |->
             IF textAnnotations[k].id = textDrag.draggedAnnotation
               THEN [textAnnotations[k] EXCEPT
                       !.x = Clamp(lastEvent'.arg[1], DragLimit[1]),
                       !.y = Clamp(lastEvent'.arg[2], DragLimit[2])]
               ELSE textAnnotations[k]]
    ]_vars

\* C19: an import is accepted only if the stroke list of the record (its
\* paths property) is present and is a sequence; otherwise the import
\* fails with the format error, and the sketches in storage are the ones
\* that were there before.
C19_ImportValidatesStrokeList ==
  [][( /\ sketchDB' # sketchDB
       /\ sketchDB'.call = "import" )
     => /\ sketchDB'.result = "ok"
             => /\ sketchDB'.file.parse = "object"
                /\ sketchDB'.file.paths.kind = "array"
                /\ Len(sketchDB'.sketches) = Len(sketchDB.sketches) + 1
                /\ sketchDB'.sketches[Len(sketchDB'.sketches)].paths =
                     sketchDB'.file.paths.items
        /\ ~( /\ sketchDB'.file.parse = "object"
              /\ sketchDB'.file.paths.kind = "array" )
             => /\ sketchDB'.result = ImportError
                /\ sketchDB'.sketches = sketchDB.sketches
    ]_vars

\* a file whose paths property is a non-empty string was refused with the
\* format error while a sketch was in storage
C19_Witness ==
  /\ sketchDB.call = "import"
  /\ sketchDB.result = ImportError
  /\ sketchDB.file.parse = "object"
  /\ sketchDB.file.paths.kind = "string"
  /\ sketchDB.file.paths.str = "s"
  /\ Len(sketchDB.sketches) = 1

\* the strokes, text annotations and history of every page, in memory
InMemory ==
  <<drawingPaths, textAnnotations, history, historyIndex,
    allPageAnnotations, allPageTextAnnotations>>

\* C20: a failure of the persistence layer, while a recently opened file
\* is recorded or while an exported file is stored in the saved-file
\* history, leaves the strokes, the text annotations and the history of
\* every page as they are, and an export that produced and downloaded its
\* file is still reported as saved.
C20_PersistenceFailureIsHarmless ==
  [][/\ ( /\ lastEvent'.type = "recentFiles"
          /\ lastEvent'.arg # "ok" )
        => UNCHANGED InMemory
     /\ ( /\ lastEvent'.type = "storeFile"
          /\ exp.pc = "store"
          /\ exp'.storageFailed )
        => /\ UNCHANGED InMemory
           /\ exp'.downloaded
           /\ exp'.alert = "success"
    ]_vars

\* the store in the saved-file history threw after the export of a page
\* with a stroke, and the recent-files tracking had failed as well
C20_Witness ==
  /\ lastEvent.type = "storeFile"
  /\ exp.storageFailed
  /\ exp.alert = "success"
  /\ drawingPaths # <<>>
  /\ ~recentFiles.pending
  /\ recentFiles.list = <<>>

\* the pages whose canvas is in use: drawn, and not yet embedded
RasterBuffers == {p \in 1 .. NumPages : exp.job[p] \in {"raster", "encoded"}}

\* C21: the export processes the pages one at a time in increasing page
\* order: a page is begun only once every page before it is embedded or
\* skipped, so at most one page's canvas is in use at any moment.
C21_PagesOneAtATime ==
  /\ Cardinality(RasterBuffers) <= 1
  /\ \A p \in 1 .. NumPages :
       exp.job[p] # "todo"
         => \A q \in 1 .. (p - 1) : exp.job[q] \in {"skipped", "embedded"}

\* the canvas of page 2 is drawn, and the layer of page 1 is embedded
C21_Witness ==
  /\ exp.pc = "pages"
  /\ exp.job[1] = "embedded"
  /\ exp.job[2] = "raster"

\* C22: for every pen style, the incremental rendering of a stroke being
\* drawn applies the same per-style rule (drawing function, number of
\* passes, width, alpha) as the bulk redraw of that stroke.
C22_IncrementalMatchesBulk ==
  ( /\ isDrawing
    /\ currentPath # NoPath
    /\ Len(currentPath.points) >= 2 )
  => Rule(DrawSegment(currentPath)) = Rule(DrawPath(currentPath))

\* the ids of the strokes of a list
Ids(paths) == {paths[k].id : k \in 1 .. Len(paths)}

\* the strokes of the list with a point within penSize * 3 of q, the
\* boundary included
WithinReach(paths, q) ==
  {k \in 1 .. Len(paths) :
     \E i \in 1 .. Len(paths[k].points) :
       Dist2(paths[k].points[i], q) <= (penSize * 3) * (penSize * 3)}

\* C23: an eraser sample removes no stroke all of whose points lie farther
\* than penSize * 3 from the eraser position; the boundary is inclusive: a
\* stroke with a point at distance exactly penSize * 3 is within reach, and
\* a pointer-down of the eraser with strokes in reach removes one of them.
C23_EraserReach ==
  [][lastEvent'.type \in {"pointerDown", "pointerMove"}
       => /\ \A k \in 1 .. Len(drawingPaths) :
               drawingPaths[k].id \notin Ids(drawingPaths')
                 => k \in WithinReach(drawingPaths, lastEvent'.arg)
          /\ ( /\ lastEvent'.type = "pointerDown"
               /\ CanvasTool = "eraser"
               /\ WithinReach(drawingPaths, lastEvent'.arg) # {} )
             => \E k \in WithinReach(drawingPaths, lastEvent'.arg) :
                  drawingPaths[k].id \notin Ids(drawingPaths')
    ]_vars

\* the eraser came down exactly penSize * 3 away from the one point of a
\* stroke, with another stroke out of reach: the first is gone, the second
\* is still there
C23_Witness ==
  /\ lastEvent.type = "pointerDown"
  /\ drawingTool = "eraser"
  /\ historyIndex > 0
  /\ Len(drawingPaths) = 1
  /\ Len(history[historyIndex]) = 2
  /\ \E k \in 1 .. 2 :
       /\ history[historyIndex][k].id \notin Ids(drawingPaths)
       /\ \A i \in 1 .. Len(history[historyIndex][k].points) :
            Dist2(history[historyIndex][k].points[i], lastEvent.arg) =
              (penSize * 3) * (penSize * 3)

\* C24: a pointer sample is stored as its display offset divided by the
\* scale in effect when it was taken, for a stroke point and for the
\* position of a text label; and a change of the display scale (zoom in,
\* zoom out, auto-fit) modifies no stored stroke point, no text position
\* and no history snapshot.
C24_GeometryIndependentOfScale ==
  [][/\ ( /\ lastEvent'.type = "pointerDown"
          /\ currentPath' # NoPath )
        => OffsetOf(currentPath'.points[1], view.scale) = trial'.offset
     /\ lastEvent'.type = "textAdd"
        => OffsetOf(<<textAnnotations'[Len(textAnnotations')].x,
                      textAnnotations'[Len(textAnnotations')].y>>,
                    view.scale) = trial'.offset
     /\ lastEvent'.type \in {"zoomIn", "zoomOut", "autoFit"}
        => /\ UNCHANGED InMemory
           /\ UNCHANGED currentPath
    ]_vars

\* zoomed in to 2.5 from the 1.5 the view starts with, over a stroke at
\* (0, 8) and a text label
C24_Witness ==
  /\ lastEvent.type = "zoomIn"
  /\ view.scale = 10
  /\ textAnnotations # <<>>
  /\ drawingPaths # <<>>
  /\ drawingPaths[1].points[1] = <<0, 8>>

\* every two consecutive points of the stroke are at least 0.5 apart
\* (d >= 0.5 is 4 * d * d >= 1)
Spaced(path) ==
  \A i \in 1 .. (Len(path.points) - 1) :
    4 * Dist2(path.points[i], path.points[i + 1]) >= 1

\* C25: stroke capture discards a sample closer than 0.5 to the last
\* retained point, so every two consecutive points of a captured stroke,
\* draft or committed, are at least 0.5 apart, on the PDF annotation canvas
\* and on the sketch pad.
C25_SamplesSpaced ==
  /\ currentPath # NoPath => Spaced(currentPath)
  /\ \A k \in 1 .. Len(drawingPaths) : Spaced(drawingPaths[k])
  /\ pad.currentPath # NoPath => Spaced(pad.currentPath)
  /\ \A k \in 1 .. Len(pad.drawingPaths) : Spaced(pad.drawingPaths[k])

\* Strokes from begin to commit on both surfaces: a canvas draft that is
\* either one point old or a finished shape, samples that are kept or
\* dropped, the pointer-up with recognition on or off, and the same
\* gesture on the sketch pad.
PressureDrafts ==
  {<< <<0, 0>> >>, RoundStroke, StraightLine(5, 4), ZigZag(5)}

InitPressure ==
  /\ currentPage = 1
  /\ pageInput = "1"
  /\ drawingTool = "pen"
  /\ penSize = 2
  /\ drawingPaths = <<>>
  /\ history = << <<>> >>
  /\ historyIndex = 0
  /\ textAnnotations = <<>>
  /\ allPageAnnotations = [p \in 1 .. NumPages |-> <<>>]
  /\ allPageTextAnnotations = [p \in 1 .. NumPages |-> <<>>]
  /\ isDrawing = TRUE
  /\ \E points \in PressureDrafts, raw \in Pressures :
       currentPath =
         [id |-> 1, points |-> points, color |-> "#000000",
          size |-> penSize, tool |-> "pen", penStyle |-> "writing",
          opacity |-> 10,
          pressure |-> [k \in 1 .. Len(points) |-> PressureOf(raw)]]
  /\ isErasing = FALSE
  /\ isPanning = FALSE
  /\ nextId = 1
  /\ nextTextId = 0
  /\ shapeRecognitionEnabled = TRUE
  /\ heldTool = "pen"
  /\ lastEvent = [type |-> "pointerMove", arg |-> 0, idx |-> 0, len |-> 1]
  /\ exp = NoExport
  /\ trial = NoTrial
  /\ SideInit

NextPressure ==
  \/ /\ \E q \in {<<0, 0>>, <<6, 0>>}, raw \in Pressures :
          HandlePointerMove(q, raw)
     /\ UNCHANGED <<trial, sideVars>>
  \/ /\ \E raw \in Pressures : HandlePointerDown(<<0, 0>>, raw)
     /\ UNCHANGED <<trial, sideVars>>
  \/ /\ HandlePointerUp
     /\ UNCHANGED <<trial, sideVars>>
  \/ /\ ToggleShapeRecognition
     /\ UNCHANGED <<trial, sideVars>>
  \/ /\ \/ PadStartDrawing(<<0, 0>>)
        \/ \E pos \in {<<0, 0>>, <<6, 0>>} : PadDraw(pos)
        \/ PadStopDrawing
     /\ UNCHANGED trial

SpecPressure == InitPressure /\ [][NextPressure]_vars

\* a stroke that carries a pressure list has one value per point; the
\* absent list of a recognized shape is the empty list, which no stroke
\* with a point can carry
PressureMatches(path) ==
  path.pressure # <<>> => Len(path.pressure) = Len(path.points)

\* C26: in every reachable state, every draft or committed stroke that
\* carries a pressure array has exactly as many pressure values as points:
\* after begin, after a retained or a discarded extend, after commit and
\* after shape replacement, on the canvas and on the sketch pad.
C26_PressurePerPoint ==
  /\ currentPath # NoPath => PressureMatches(currentPath)
  /\ \A k \in 1 .. Len(drawingPaths) : PressureMatches(drawingPaths[k])
  /\ \A h \in 1 .. Len(history) :
       \A k \in 1 .. Len(history[h]) : PressureMatches(history[h][k])
  /\ pad.currentPath # NoPath => PressureMatches(pad.currentPath)
  /\ \A k \in 1 .. Len(pad.drawingPaths) :
       PressureMatches(pad.drawingPaths[k])

\* a sample was dropped from a draft of two points that carries two
\* pressure values, next to a committed stroke with its pressure values
C26_Witness ==
  /\ lastEvent.type = "pointerMove"
  /\ currentPath # NoPath
  /\ Len(currentPath.points) = 2
  /\ Len(currentPath.pressure) = 2
  /\ lastEvent.arg = currentPath.points[2]
  /\ Len(drawingPaths) = 1
  /\ Len(drawingPaths[1].pressure) >= 2

\* The pen favorites store from empty storage: saves with either outcome
\* of the write, deleting the newest or the oldest entry, renaming the
\* newest.
FavEnds(store) ==
  IF GetPenFavorites(store) = <<>> THEN {}
  ELSE {GetPenFavorites(store)[1].id,
        GetPenFavorites(store)[Len(GetPenFavorites(store))].id}

NextFavorites ==
  /\ \/ \E name \in FavNames, ok \in BOOLEAN : SavePenFavorite(name, ok)
     \/ \E id \in FavEnds(penStore) : DeletePenFavorite(id)
     \/ /\ GetPenFavorites(penStore) # <<>>
        /\ UpdatePenFavorite(GetPenFavorites(penStore)[1].id, "b")
  /\ UNCHANGED trial

SpecFavorites == Init /\ [][NextFavorites]_vars

\* C27: the stored list of pen favorites never holds more than 10 entries,
\* and a save that finds 10 entries fails with an error and leaves the
\* stored list unchanged, for any sequence of save, delete and update from
\* empty storage.
C27_AtMostTenFavorites ==
  [][ /\ Len(penStore'.list) <= MAX_FAVORITES
      /\ ( /\ penStore'.call = "save"
           /\ Len(GetPenFavorites(penStore)) >= MAX_FAVORITES )
         => /\ penStore'.result = "error"
            /\ penStore'.list = penStore.list
            /\ penStore'.present = penStore.present ]_vars

\* a save was refused on a full list of 10
C27_Witness ==
  /\ penStore.call = "save"
  /\ penStore.result = "error"
  /\ Len(penStore.list) = MAX_FAVORITES

\* C28: in every reachable state of the PDF annotation view,
\* 0 <= historyIndex < history.length and the live stroke list equals
\* history[historyIndex], after any sequence of draws, erasures (several
\* strokes erased by one sample included), clear all, undo, redo, page
\* switches and file loads.
C28_HistoryTracksLiveStrokes ==
  /\ 0 <= historyIndex
  /\ historyIndex < Len(history)
  /\ drawingPaths = history[historyIndex + 1]

\* Everything that writes the stroke list, the history or its cursor:
\* pen and eraser samples at one point (so an eraser sample hits every
\* stroke of the page), clear all, undo, redo, the page switches and
\* opening a file.
NextLive ==
  /\ \/ \E q \in PagePos : HandlePointerDown(q, 0) /\ UNCHANGED fileVars
     \/ HandlePointerMove(<<6, 0>>, 0) /\ UNCHANGED fileVars
     \/ HandlePointerUp /\ UNCHANGED fileVars
     \/ \E t \in {"pen", "eraser"} : SetDrawingTool(t) /\ UNCHANGED fileVars
     \/ ClearAll /\ UNCHANGED fileVars
     \/ Undo /\ UNCHANGED fileVars
     \/ Redo /\ UNCHANGED fileVars
     \/ GoToPreviousPage /\ UNCHANGED fileVars
     \/ GoToNextPage /\ UNCHANGED fileVars
     \/ PageInputBlur /\ UNCHANGED fileVars
     \/ FileSelect
  /\ UNCHANGED <<trial, widgetVars>>

SpecLive == Init /\ [][NextLive]_vars

\* one eraser sample hit both strokes of the page, on page 2
C28_Witness ==
  /\ currentPage = 2
  /\ lastEvent.type = "pointerDown"
  /\ heldTool = "eraser"
  /\ historyIndex >= 1
  /\ Len(history[historyIndex]) = 2
  /\ \A k \in 1 .. 2 :
       EraserHit(history[historyIndex][k], lastEvent.arg, penSize)
  /\ Len(drawingPaths) = 1

\* C29: while the text tool is selected, pointer gestures on the page
\* never add a stroke to the page's stroke list or a snapshot to its
\* history; they can only add, move, edit or delete text annotations.
C29_TextToolDrawsNothing ==
  [][( /\ drawingTool = "text"
       /\ lastEvent'.type \in {"pointerDown", "pointerMove", "pointerUp"} )
     => /\ drawingPaths' = drawingPaths
        /\ history' = history
        /\ historyIndex' = historyIndex]_vars

\* an export is in flight: handleSavePDF is between its first line and its
\* finally
InFlight(e) == e.pc \in {"load", "pages", "store"}

====
